---- MODULE Spec2Model ----
(***************************************************************************)
(* Model of the LegacyLens Project Map core (src/src/core/context-builder.js):*)
(* the cache layer and the map builder (specification Spec), the path     *)
(* resolver (SpecResolve) and the graph queries built on it (SpecGraph,    *)
(* SpecPinned), the builder under a missing or unreadable root             *)
(* (SpecFaults), with two processes (SpecRace) and with a tree depth       *)
(* (SpecDepth), the extraction of one file's record (SpecExtract), the     *)
(* ignore engine (SpecIgnore), the walk (SpecCollect), the queries on a    *)
(* returned map (SpecQuery) and the cache of analysis results              *)
(* (SpecAnalysis).                                                         *)
(* Paths, import specifiers and ignore patterns are strings, handled       *)
(* character by character as the JavaScript does.                          *)
(***************************************************************************)
EXTENDS Integers, Sequences, FiniteSets, TLC

(***************************************************************************)
(* String helpers (JavaScript String / Array methods used by the source).  *)
(***************************************************************************)

\* null / undefined of a string-valued result
Null == "<null>"

CharAt(s, i) == SubSeq(s, i, i)

StartsWith(s, pre) == Len(s) >= Len(pre) /\ SubSeq(s, 1, Len(pre)) = pre

EndsWith(s, suf) == Len(s) >= Len(suf) /\ SubSeq(s, Len(s) - Len(suf) + 1, Len(s)) = suf

\* s.indexOf(ch), 1-based, 0 when absent
IndexOf(s, ch) ==
    LET at == { i \in 1..Len(s) : CharAt(s, i) = ch }
    IN  IF at = {} THEN 0 ELSE CHOOSE i \in at : \A j \in at : i <= j

\* s.lastIndexOf(ch), 1-based, 0 when absent
LastIndexOf(s, ch) ==
    LET at == { i \in 1..Len(s) : CharAt(s, i) = ch }
    IN  IF at = {} THEN 0 ELSE CHOOSE i \in at : \A j \in at : i >= j

\* faulty variant of ReplaceBackslash: backslashes are kept
KeepBackslash(s) == s

\* s.replace(/\\/g, '/')
RECURSIVE ReplaceBackslash(_)

\* the replacement when the first backslash of s is at i
ReplaceFrom(s, i) ==
    IF i = 0 THEN s
    ELSE SubSeq(s, 1, i - 1) \o "/" \o ReplaceBackslash(SubSeq(s, i + 1, Len(s)))

ReplaceBackslash(s) == ReplaceFrom(s, IndexOf(s, "\\"))

\* s.replace(/^\.\//, '')
StripDotSlash(s) == IF StartsWith(s, "./") THEN SubSeq(s, 3, Len(s)) ELSE s

\* s.split(sep) for a one-character separator
RECURSIVE Split(_, _)

\* the split when the first separator of s is at i
SplitAt(s, sep, i) ==
    IF i = 0 THEN <<s>>
    ELSE <<SubSeq(s, 1, i - 1)>> \o Split(SubSeq(s, i + 1, Len(s)), sep)

Split(s, sep) == SplitAt(s, sep, IndexOf(s, sep))

\* parts.join(sep)
RECURSIVE JoinWith(_, _)
JoinWith(parts, sep) ==
    IF Len(parts) = 0 THEN ""
    ELSE IF Len(parts) = 1 THEN parts[1]
    ELSE parts[1] \o sep \o JoinWith(Tail(parts), sep)

\* array.includes / Set.has / Map.has on the insertion-ordered keys
Has(seq, x) == \E i \in 1..Len(seq) : seq[i] = x

\* Set.add: insertion order is kept, a present element is not added again
SetAdd(seq, x) == IF Has(seq, x) THEN seq ELSE Append(seq, x)

\* faulty variant of SetAddAll: a plain concatenation, without the Set
ConcatAll(seq, xs) == seq \o xs

RECURSIVE SetAddAll(_, _)
SetAddAll(seq, xs) ==
    IF Len(xs) = 0 THEN seq ELSE SetAddAll(SetAdd(seq, xs[1]), Tail(xs))

\* seq.slice(0, n)
Slice(seq, n) == SubSeq(seq, 1, IF Len(seq) < n THEN Len(seq) ELSE n)

ToSet(seq) == { seq[i] : i \in 1..Len(seq) }

NoDup(seq) == \A i, j \in 1..Len(seq) : seq[i] = seq[j] => i = j

(***************************************************************************)
(* Node's path module (posix flavour).                                     *)
(***************************************************************************)

\* path.dirname
\* the directory part when the last '/' of p is at i
DirnameAt(p, i) ==
    IF i = 0 THEN "."
    ELSE IF i = 1 THEN "/"
    ELSE SubSeq(p, 1, i - 1)

Dirname(p) == DirnameAt(p, LastIndexOf(p, "/"))

\* path.basename(p)
Basename(p) == SubSeq(p, LastIndexOf(p, "/") + 1, Len(p))

\* the extension of the base name b whose last '.' is at i
ExtnameAt(b, i) == IF i <= 1 \/ b = ".." THEN "" ELSE SubSeq(b, i, Len(b))

\* the extension of a base name
ExtnameOfBase(b) == ExtnameAt(b, LastIndexOf(b, "."))

\* path.extname
Extname(p) == ExtnameOfBase(Basename(p))

\* the base name b without the suffix ext
StripExt(b, ext) ==
    IF ext # "" /\ b # ext /\ EndsWith(b, ext)
    THEN SubSeq(b, 1, Len(b) - Len(ext))
    ELSE b

\* path.basename(p, ext)
BasenameExt(p, ext) == StripExt(Basename(p), ext)

\* the segment walk of path.posix.normalize for a relative path: '.' and empty
\* segments are dropped, '..' removes the segment before it and is kept when
\* there is none (or only '..') before it
RECURSIVE NormalizeSegs(_, _)
NormalizeSegs(segs, acc) ==
    IF Len(segs) = 0 THEN acc
    ELSE LET s == segs[1]
             n == Len(acc)
         IN  IF s = "" \/ s = "." THEN NormalizeSegs(Tail(segs), acc)
             ELSE IF s = ".." /\ n > 0 /\ acc[n] # ".."
                  THEN NormalizeSegs(Tail(segs), SubSeq(acc, 1, n - 1))
             ELSE NormalizeSegs(Tail(segs), Append(acc, s))

\* path.posix.join(a, b) for relative a
\* the normalized path, given its normalized segments joined and whether the
\* path ended with a '/'
NormalizedPath(joined, body, trail) ==
    IF joined = "" THEN "."
    ELSE IF body = "" THEN (IF trail THEN "./" ELSE ".")
    ELSE IF trail THEN body \o "/" ELSE body

\* path.posix.normalize of a relative path
PosixNormalize(joined) ==
    NormalizedPath(joined, JoinWith(NormalizeSegs(Split(joined, "/"), <<>>), "/"),
                   EndsWith(joined, "/"))

PosixJoin(a, b) ==
    PosixNormalize(IF a = "" THEN b ELSE IF b = "" THEN a ELSE a \o "/" \o b)

(***************************************************************************)
(* Path Resolver: resolveImportPath.  fileMap is the Map built from        *)
(* map.files, represented by its keys in insertion order.                  *)
(***************************************************************************)

\* extensions tried after the exact match
ResolveExts == <<".js", ".ts", ".jsx", ".tsx", ".mjs", ".cjs">>

\* index files tried after the extensions
ResolveIndexes == <<"/index.js", "/index.ts", "/index.jsx", "/index.tsx">>

\* resolved.split('/').filter(p => p && p !== '.')
RECURSIVE FilterParts(_)
FilterParts(parts) ==
    IF Len(parts) = 0 THEN <<>>
    ELSE (IF parts[1] # "" /\ parts[1] # "." THEN <<parts[1]>> ELSE <<>>)
         \o FilterParts(Tail(parts))

\* faulty variant of PopDotDot: a '..' that has nothing to pop is kept
RECURSIVE PopDotDotKept(_, _)
PopDotDotKept(parts, normalized) ==
    IF Len(parts) = 0 THEN normalized
    ELSE IF parts[1] = ".." /\ Len(normalized) > 0 /\ normalized[Len(normalized)] # ".."
         THEN PopDotDotKept(Tail(parts), SubSeq(normalized, 1, Len(normalized) - 1))
    ELSE PopDotDotKept(Tail(parts), Append(normalized, parts[1]))

\* the loop over parts: '..' pops (a pop of the empty array does nothing)
RECURSIVE PopDotDot(_, _)
PopDotDot(parts, normalized) ==
    IF Len(parts) = 0 THEN normalized
    ELSE IF parts[1] = ".."
         THEN PopDotDot(Tail(parts),
                        IF Len(normalized) = 0 THEN normalized
                        ELSE SubSeq(normalized, 1, Len(normalized) - 1))
    ELSE PopDotDot(Tail(parts), Append(normalized, parts[1]))

\* the array `normalized` of resolveImportPath
\* normalizedFromDir = fromDir === '.' ? '' : fromDir
DotToEmpty(fromDir) == IF fromDir = "." THEN "" ELSE fromDir

\* the first value of `resolved`: the import joined to the importing directory
JoinedImport(normalizedFromDir, importPath) ==
    IF normalizedFromDir # ""
    THEN ReplaceBackslash(PosixJoin(normalizedFromDir, importPath))
    ELSE ReplaceBackslash(StripDotSlash(importPath))

NormalizedParts(fromFile, importPath) ==
    PopDotDot(
        FilterParts(
            Split(JoinedImport(
                      DotToEmpty(ReplaceBackslash(
                          Dirname(IF fromFile = "" THEN "." ELSE fromFile))),
                      importPath),
                  "/")),
        <<>>)

\* faulty variant of FirstCandidate: the candidate is not looked up
FirstCandidateUnchecked(resolved, suffixes, fileMap) ==
    IF Len(suffixes) = 0 THEN Null ELSE resolved \o suffixes[1]

\* for (const ext of list) { if (fileMap.has(resolved + ext)) return resolved + ext }
RECURSIVE FirstCandidate(_, _, _)
FirstCandidate(resolved, suffixes, fileMap) ==
    IF Len(suffixes) = 0 THEN Null
    ELSE IF Has(fileMap, resolved \o suffixes[1]) THEN resolved \o suffixes[1]
    ELSE FirstCandidate(resolved, Tail(suffixes), fileMap)

\* last resort: the first key with the same base name whose directory is the
\* target directory or ends with '/' + target directory
RECURSIVE BasenameMatch(_, _, _)
\* fileDir === targetDir || fileDir.endsWith('/' + targetDir)
DirMatches(fileDir, targetDir) ==
    fileDir = targetDir \/ EndsWith(fileDir, "/" \o targetDir)

BasenameMatch(keys, basename, targetDir) ==
    IF Len(keys) = 0 THEN Null
    ELSE IF /\ BasenameExt(keys[1], Extname(keys[1])) = basename
            /\ DirMatches(ReplaceBackslash(Dirname(keys[1])), targetDir)
         THEN ReplaceBackslash(keys[1])
         ELSE BasenameMatch(Tail(keys), basename, targetDir)

\* the first of the results of the attempts that is not null
FirstFound(first, second, third) ==
    IF first # Null THEN first ELSE IF second # Null THEN second ELSE third

\* the attempts of resolveImportPath on the normalized path `resolved`:
\* exact, extensions, index files, base name
ResolveNormalized(resolved, targetDir, fileMap) ==
    IF Has(fileMap, resolved) THEN resolved
    ELSE FirstFound(FirstCandidate(resolved, ResolveExts, fileMap),
                    FirstCandidate(resolved, ResolveIndexes, fileMap),
                    BasenameMatch(fileMap, Basename(resolved), targetDir))

\* resolved = normalized.join('/'), targetDir = normalized.slice(0, -1).join('/')
ResolveParts(normalized, fileMap) ==
    ResolveNormalized(JoinWith(normalized, "/"),
                      JoinWith(SubSeq(normalized, 1, Len(normalized) - 1), "/"),
                      fileMap)

\* faulty variant of resolveImportPath: index files are tried before extensions
resolveIndexFirst(fromFile, importPath, fileMap) ==
    IF importPath = "" \/ ~StartsWith(importPath, ".") THEN Null
    ELSE IF Has(fileMap, JoinWith(NormalizedParts(fromFile, importPath), "/"))
         THEN ResolveParts(NormalizedParts(fromFile, importPath), fileMap)
         ELSE FirstFound(
                  FirstCandidate(JoinWith(NormalizedParts(fromFile, importPath), "/"),
                                 ResolveIndexes, fileMap),
                  ResolveParts(NormalizedParts(fromFile, importPath), fileMap), Null)

resolveImportPath(fromFile, importPath, fileMap) ==
    IF importPath = "" \/ ~StartsWith(importPath, ".") THEN Null
    ELSE ResolveParts(NormalizedParts(fromFile, importPath), fileMap)

(***************************************************************************)
(* Graph queries: getAffectedFiles and the checking loop of                *)
(* verifyProjectMap.  A map is its `files`: a sequence of records          *)
(* [path, imports].                                                        *)
(***************************************************************************)

\* new Map(map.files.map(f => [f.path, f])): the keys, first insertion first
RECURSIVE MapKeys(_)
MapKeys(files) ==
    IF Len(files) = 0 THEN <<>>
    ELSE SetAdd(MapKeys(SubSeq(files, 1, Len(files) - 1)), files[Len(files)].path)

normalizePath(relPath) == StripDotSlash(ReplaceBackslash(relPath))

\* map.files.find(f => normalizePath(f.path) === focus || f.path === relativeFilePath):
\* the index of the entry, 0 when there is none
RECURSIVE FindFocus(_, _, _, _)
FindFocus(files, i, focus, relativeFilePath) ==
    IF i > Len(files) THEN 0
    ELSE IF normalizePath(files[i].path) = focus \/ files[i].path = relativeFilePath THEN i
    ELSE FindFocus(files, i + 1, focus, relativeFilePath)

\* the resolved, non-null targets of one file's imports, as a Set
RECURSIVE ResolveAll(_, _, _, _)
\* if (resolved) dependencies.add(resolved)
AddIfResolved(acc, resolved) ==
    IF resolved # Null /\ resolved # "" THEN SetAdd(acc, resolved) ELSE acc

ResolveAll(fromPath, imports, fileMap, acc) ==
    IF Len(imports) = 0 THEN acc
    ELSE ResolveAll(fromPath, Tail(imports), fileMap,
                    AddIfResolved(acc, resolveImportPath(fromPath, imports[1], fileMap)))

\* resolved && (normalizePath(resolved) === focus || resolved === relativeFilePath)
IsFocus(resolved, focus, relativeFilePath) ==
    /\ resolved # Null /\ resolved # ""
    /\ (normalizePath(resolved) = focus \/ resolved = relativeFilePath)

\* faulty variant of ImportsFocus: only the first import of f is looked at
ImportsFocusFirstOnly(f, fileMap, focus, relativeFilePath) ==
    /\ Len(f.imports) > 0
    /\ IsFocus(resolveImportPath(f.path, f.imports[1], fileMap), focus, relativeFilePath)

\* does an import of f resolve to the focus file
ImportsFocus(f, fileMap, focus, relativeFilePath) ==
    \E k \in 1..Len(f.imports) :
        IsFocus(resolveImportPath(f.path, f.imports[k], fileMap), focus, relativeFilePath)

RECURSIVE Dependents(_, _, _, _, _)
Dependents(files, fileMap, focus, relativeFilePath, acc) ==
    IF Len(files) = 0 THEN acc
    ELSE Dependents(Tail(files), fileMap, focus, relativeFilePath,
                    IF ImportsFocus(files[1], fileMap, focus, relativeFilePath)
                    THEN SetAdd(acc, files[1].path) ELSE acc)

\* the value returned for the focus entry and its two Sets
AffectedResult(focusPath, dependencies, dependents) ==
    [dependencies |-> dependencies,
     dependents |-> dependents,
     all |-> SetAddAll(SetAddAll(<<focusPath>>, dependencies), dependents)]

\* getAffectedFiles once the focus entry was looked for: e is its index in
\* files, 0 when there is none
AffectedAt(files, fileMap, focus, relativeFilePath, e) ==
    IF e = 0 THEN [dependencies |-> <<>>, dependents |-> <<>>, all |-> <<focus>>]
    ELSE AffectedResult(files[e].path,
                        ResolveAll(files[e].path, files[e].imports, fileMap, <<>>),
                        Dependents(files, fileMap, focus, relativeFilePath, <<>>))

\* getAffectedFiles with focus = normalizePath(relativeFilePath)
AffectedFocus(files, focus, relativeFilePath) ==
    AffectedAt(files, MapKeys(files), focus, relativeFilePath,
               FindFocus(files, 1, focus, relativeFilePath))

getAffectedFiles(files, relativeFilePath) ==
    AffectedFocus(files, normalizePath(relativeFilePath), relativeFilePath)

ReasonNotFound == "Target not found or not in project map"

ReasonNotInMap(resolved) == "Resolved to " \o resolved \o " but file not in map"

\* what one checked import adds to brokenImports
BrokenEntry(from, imp, resolved, fileMap) ==
    IF resolved = Null \/ resolved = ""
    THEN <<[from |-> from, import |-> imp, reason |-> ReasonNotFound]>>
    ELSE IF ~Has(fileMap, resolved)
    THEN <<[from |-> from, import |-> imp, reason |-> ReasonNotInMap(resolved)]>>
    ELSE <<>>

\* totalChecked++ and the push to brokenImports for one import
Checked(acc, from, imp, resolved, fileMap) ==
    [brokenImports |-> acc.brokenImports \o BrokenEntry(from, imp, resolved, fileMap),
     totalChecked |-> acc.totalChecked + 1]

\* faulty variant of VerifyImports: non-relative imports are checked as well
RECURSIVE VerifyEveryImport(_, _, _, _)
VerifyEveryImport(from, imports, fileMap, acc) ==
    IF Len(imports) = 0 THEN acc
    ELSE VerifyEveryImport(from, Tail(imports), fileMap,
                           Checked(acc, from, imports[1],
                                   resolveImportPath(from, imports[1], fileMap), fileMap))

\* the inner forEach of verifyProjectMap over one file's imports;
\* acc = [brokenImports, totalChecked]
RECURSIVE VerifyImports(_, _, _, _)
VerifyImports(from, imports, fileMap, acc) ==
    IF Len(imports) = 0 THEN acc
    ELSE VerifyImports(from, Tail(imports), fileMap,
                       IF imports[1] = "" \/ ~StartsWith(imports[1], ".") THEN acc
                       ELSE Checked(acc, from, imports[1],
                                    resolveImportPath(from, imports[1], fileMap), fileMap))

RECURSIVE VerifyFiles(_, _, _)
VerifyFiles(files, fileMap, acc) ==
    IF Len(files) = 0 THEN acc
    ELSE VerifyFiles(Tail(files), fileMap,
                     VerifyImports(files[1].path, files[1].imports, fileMap, acc))

\* the value verifyProjectMap returns
VerifyResult(r) ==
    [ok |-> Len(r.brokenImports) = 0,
     brokenImports |-> r.brokenImports,
     totalChecked |-> r.totalChecked]

\* verifyProjectMap once the map is built
verifyMap(files) ==
    VerifyResult(VerifyFiles(files, MapKeys(files),
                             [brokenImports |-> <<>>, totalChecked |-> 0]))

(***************************************************************************)
(* Context pinning: getPinnedContext once the map is built.                *)
(***************************************************************************)

\* sub.dependencies.forEach(p => secondLevel.add(p)); the same for dependents
AddSub(secondLevel, sub) ==
    SetAddAll(SetAddAll(secondLevel, sub.dependencies), sub.dependents)

\* one of the two forEach loops over the first pass
RECURSIVE AddSubs(_, _, _)
AddSubs(files, deps, secondLevel) ==
    IF Len(deps) = 0 THEN secondLevel
    ELSE AddSubs(files, Tail(deps), AddSub(secondLevel, getAffectedFiles(files, deps[1])))

\* faulty variant of PathSet: the second pass is never made
PathSetFirstPassOnly(files, affected, transitive) == affected.all

\* pathSet when files are filtered
PathSet(files, affected, transitive) ==
    IF transitive >= 1
    THEN SetAddAll(affected.all,
                   AddSubs(files, affected.dependents,
                           AddSubs(files, affected.dependencies, affected.all)))
    ELSE affected.all

\* map.files.filter(f => pathSet.has(f.path))
FilterFiles(files, pathSet) == SelectSeq(files, LAMBDA f : Has(pathSet, f.path))

\* map.files.find(f => normalizePath(f.path) === normalizePath(relativeFilePath)):
\* the path of the entry, relativeFilePath when there is none
RECURSIVE FocusFile(_, _)
FocusFile(files, relativeFilePath) ==
    IF Len(files) = 0 THEN relativeFilePath
    ELSE IF normalizePath(files[1].path) = normalizePath(relativeFilePath) THEN files[1].path
    ELSE FocusFile(Tail(files), relativeFilePath)

\* the value returned, given the first pass
PinnedResult(files, relativeFilePath, affected, transitive) ==
    [focusFile |-> FocusFile(files, relativeFilePath),
     dependencies |-> affected.dependencies,
     dependents |-> affected.dependents,
     files |-> FilterFiles(files, PathSet(files, affected, transitive))]

getPinnedContext(files, relativeFilePath, transitive) ==
    PinnedResult(files, relativeFilePath, getAffectedFiles(files, relativeFilePath),
                 transitive)

(***************************************************************************)
(* The scanned root.  A file's content is a sequence of lines; a line is   *)
(* a record [re, spec]: the import pattern it matches ("require", "from",  *)
(* "dynamic", or "text" for a line that matches none) and the specifier    *)
(* between its quotes.  Sizes and the hashed prefix are counted in lines.  *)
(***************************************************************************)

\* the source files that may exist under the root
SrcPaths == {"a.js", "lib/b.ts"}

Line(re, spec) == [re |-> re, spec |-> spec]

\* the contents each source file may have.  The second and third content of
\* a.js have the same size and differ only after the hashed prefix; the two
\* non-empty contents of lib/b.ts have the same size and differ inside it.
ContentsOf(p) ==
    IF p = "a.js"
    THEN { <<Line("require", "./lib/b")>>,
           <<Line("require", "./lib/b"), Line("from", "./a")>>,
           <<Line("require", "./lib/b"), Line("from", "fs")>> }
    ELSE { <<>>, <<Line("from", "../a")>>, <<Line("require", "../a")>> }

\* a file that cannot be read (ENOENT, EACCES)
NoFile == <<Line("enoent", "")>>

\* fs.readFileSync(f.full, 'utf-8').slice(0, 1024): the prefix that is digested;
\* one line of the model stands for the 1024 characters
HashPrefixLen == 1

\* faulty variant of DEFAULT_IGNORE: the tool's own cache files are not listed
DefaultIgnoreWithoutCaches ==
    << "node_modules", "dist", "build", ".git", ".env", "__pycache__", "venv",
       ".vscode", ".idea", "out", "logs", "coverage", ".nyc_output", "*.log" >>

DEFAULT_IGNORE ==
    << "node_modules", "dist", "build", ".git", ".env", "__pycache__", "venv",
       ".vscode", ".idea", "out", "logs", "coverage", ".nyc_output", "*.log",
       ".legacylens-map.json", ".legacylens-cache.json", ".legacylens-index.json" >>

MAP_CACHE_FILENAME == ".legacylens-map.json"

SOURCE_EXTENSIONS == <<".js", ".ts", ".tsx", ".mjs", ".cjs", ".py", ".java", ".jsx">>

\* the tool version of package.json, read by utils/constants
VERSION == "4.5.0"

\* a version other than the running tool's
OtherVersion == "4.4.0"

(***************************************************************************)
(* Ignore Engine: shouldIgnore.  Each pattern becomes the regular          *)
(* expression ^pattern$ with every '*' replaced by '.*', flag 'i'.         *)
(***************************************************************************)

UpperChars == "ABCDEFGHIJKLMNOPQRSTUVWXYZ"

LowerChars == "abcdefghijklmnopqrstuvwxyz"

LowerChar(c) ==
    LET i == IndexOf(UpperChars, c) IN IF i = 0 THEN c ELSE CharAt(LowerChars, i)

\* p.replace(/\*/g, '.*')
RECURSIVE StarToDotStar(_)
StarToDotStar(p) ==
    LET i == IndexOf(p, "*")
    IN  IF i = 0 THEN p
        ELSE SubSeq(p, 1, i - 1) \o ".*" \o StarToDotStar(SubSeq(p, i + 1, Len(p)))

\* one pattern character against one character, flag 'i'
CharMatches(pc, c) == pc = "." \/ LowerChar(pc) = LowerChar(c)

\* new RegExp('^' + pattern + '$', 'i').test(s) for patterns made of ordinary
\* characters, '.' (any one character) and '.*'
RECURSIVE RegexTest(_, _)
RegexTest(pattern, s) ==
    LET star == IndexOf(pattern, "*")
    IN  IF star = 0
        THEN /\ Len(pattern) = Len(s)
             /\ \A i \in 1..Len(s) : CharMatches(CharAt(pattern, i), CharAt(s, i))
        ELSE \* pattern = literal prefix, then '.*', then the rest
             LET pre == star - 2
                 rest == SubSeq(pattern, star + 1, Len(pattern))
             IN  /\ Len(s) >= pre
                 /\ \A i \in 1..pre : CharMatches(CharAt(pattern, i), CharAt(s, i))
                 /\ \E k \in pre..Len(s) : RegexTest(rest, SubSeq(s, k + 1, Len(s)))

\* ignoreInstance is the set of relative paths the external matcher ignores
\* (empty when options.ignore is not given)
shouldIgnore(relPath, ignoreInstance, extraPatterns) ==
    LET parts == Split(relPath, "/")
        allPatterns == DEFAULT_IGNORE \o extraPatterns
    IN  \/ \E k \in 1..Len(allPatterns) :
              LET pattern == StarToDotStar(allPatterns[k])
              IN  \/ \E j \in 1..Len(parts) : RegexTest(pattern, parts[j])
                  \/ RegexTest(pattern, relPath)
        \/ relPath \in ignoreInstance

(***************************************************************************)
(* The file system under the root: `disk` maps each source path to its     *)
(* content (NoFile when absent) and `cacheFile` is .legacylens-map.json    *)
(* in the root directory.                                                  *)
(***************************************************************************)

NoTree == [name |-> "", leaf |-> TRUE, children |-> <<>>]

NoMap == [tree |-> NoTree, files |-> <<>>, summary |-> <<>>]

\* the cache file: absent, text JSON.parse rejects (a truncated or foreign
\* file), or the document {hash, map, timestamp, version} (timestamp is
\* never read back)
CacheAbsent == [kind |-> "absent", hash |-> <<>>, map |-> NoMap, version |-> ""]

CacheGarbage == [kind |-> "garbage", hash |-> <<>>, map |-> NoMap, version |-> ""]

CacheEntry(hash, map, version) ==
    [kind |-> "entry", hash |-> hash, map |-> map, version |-> version]

\* every path that exists under the root
ExistingPaths(d, c) ==
    { p \in SrcPaths : d[p] # NoFile }
        \cup (IF c.kind = "absent" THEN {} ELSE {MAP_CACHE_FILENAME})

\* faulty variant of ReadFileSync: a file that cannot be read reads as empty
ReadFileSyncEmptyOnError(rel, d, c) ==
    IF rel \in SrcPaths THEN (IF d[rel] = NoFile THEN <<>> ELSE d[rel])
    ELSE IF rel = MAP_CACHE_FILENAME /\ c.kind # "absent" THEN <<Line("json", c.kind)>>
    ELSE NoFile

\* fs.readFileSync(full, 'utf-8'); the cache file is one line of JSON text
ReadFileSync(rel, d, c) ==
    IF rel \in SrcPaths THEN d[rel]
    ELSE IF rel = MAP_CACHE_FILENAME /\ c.kind # "absent" THEN <<Line("json", c.kind)>>
    ELSE NoFile

\* what of the root cannot be read: root is whether the root directory
\* exists, denied the files and directories under it that exist and cannot
\* be read (EACCES)
NoFault == [root |-> TRUE, denied |-> {}]

\* the directories above the source files
SrcDirs ==
    UNION { { JoinWith(SubSeq(Split(p, "/"), 1, k), "/") :
                k \in 1..(Len(Split(p, "/")) - 1) } : p \in SrcPaths }

\* faulty variant of Listed: a denied directory is read like any other
ListedAll(paths, deniedDirs) == paths

\* the paths of `paths` that a walk can reach when readdirSync throws for the
\* directories of deniedDirs: a denied directory is listed as "dir/" with
\* nothing below it
Listed(paths, deniedDirs) ==
    { p \in paths : \A dir \in deniedDirs : ~StartsWith(p, dir \o "/") }
        \cup { dir \o "/" : dir \in { x \in deniedDirs :
                                        \E p \in paths : StartsWith(p, x \o "/") } }

\* the paths the two walks are given.  fs.readdirSync throws for a directory
\* that is missing or denied, and both walks catch that and go on with no
\* entries; a denied directory is still an entry of its parent.  So nothing
\* is below a missing root, and a denied directory is listed as "dir/" with
\* nothing below it.
FsPaths(d, c, f) ==
    IF ~f.root THEN {} ELSE Listed(ExistingPaths(d, c), SrcDirs \cap f.denied)

\* what fs.statSync / fs.readFileSync give for the source files: they throw
\* for a file that is denied or whose root is missing
FsDisk(d, f) ==
    [p \in SrcPaths |-> IF ~f.root \/ p \in f.denied THEN NoFile ELSE d[p]]

\* the cache file as loadProjectMap finds it: none below a missing root,
\* text it cannot read when denied
FsCache(c, f) ==
    IF ~f.root THEN CacheAbsent
    ELSE IF c.kind # "absent" /\ MAP_CACHE_FILENAME \in f.denied THEN CacheGarbage
    ELSE c

\* the order of the characters in file names, for sorting
CharOrder == ".-/0123456789ABCDEFGHIJKLMNOPQRSTUVWXYZ_abcdefghijklmnopqrstuvwxyz"

\* a.localeCompare(b) < 0
StrLess(a, b) ==
    LET n == IF Len(a) < Len(b) THEN Len(a) ELSE Len(b)
        diff == { i \in 1..n : CharAt(a, i) # CharAt(b, i) }
    IN  IF diff = {} THEN Len(a) < Len(b)
        ELSE LET i == CHOOSE k \in diff : \A j \in diff : k <= j
             IN  IndexOf(CharOrder, CharAt(a, i)) < IndexOf(CharOrder, CharAt(b, i))

\* array.sort((a, b) => a.localeCompare(b)): a stable insertion sort
RECURSIVE SortInsert(_, _)
SortInsert(sorted, x) ==
    IF Len(sorted) = 0 THEN <<x>>
    ELSE IF StrLess(x, sorted[1]) THEN <<x>> \o sorted
    ELSE <<sorted[1]>> \o SortInsert(Tail(sorted), x)

RECURSIVE SortStrings(_)
SortStrings(seq) ==
    IF Len(seq) = 0 THEN <<>>
    ELSE SortInsert(SortStrings(SubSeq(seq, 1, Len(seq) - 1)), seq[Len(seq)])

RECURSIVE Reverse(_)
Reverse(seq) == IF Len(seq) = 0 THEN <<>> ELSE Append(Reverse(Tail(seq)), seq[1])

RECURSIVE SetToSeq(_)
SetToSeq(S) ==
    IF S = {} THEN <<>>
    ELSE LET x == CHOOSE y \in S : TRUE IN <<x>> \o SetToSeq(S \ {x})

\* is rel a directory
IsDirectory(rel, paths) == \E p \in paths : StartsWith(p, rel \o "/")

\* fs.readdirSync(dir): the names directly under dir ("" is the root), in one
\* of the enumeration orders the file system may use
Readdir(dir, paths, rev) ==
    LET pre == IF dir = "" THEN "" ELSE dir \o "/"
        under == { p \in paths : StartsWith(p, pre) /\ Len(p) > Len(pre) }
        names == { Split(SubSeq(p, Len(pre) + 1, Len(p)), "/")[1] : p \in under }
        asc == SortStrings(SetToSeq(names))
    IN  IF rev THEN Reverse(asc) ELSE asc

\* the files a root may hold when collectSourceFiles is asked on its own
CollectPaths ==
    { "a.js", "lib/b.ts", "lib/notes.txt", "dist/d.js", "lib/sub/f.js",
      "lib/sub/build/e.js", MAP_CACHE_FILENAME }

\* every relative path a walk of the root can meet
WalkUniverse ==
    UNION { { JoinWith(SubSeq(Split(p, "/"), 1, k), "/") :
                k \in 1..Len(Split(p, "/")) } :
            p \in SrcPaths \cup CollectPaths \cup {MAP_CACHE_FILENAME} }

\* shouldIgnore under the default options, tabulated once
IgnoreMemo == [rel \in WalkUniverse |-> shouldIgnore(rel, {}, <<>>)]

\* the call shouldIgnore(rel, ignoreInstance, extraIgnore) of the two walks
Ignored(rel, ignoreInstance, extraIgnore) ==
    IF ignoreInstance = {} /\ extraIgnore = <<>> /\ rel \in DOMAIN IgnoreMemo
    THEN IgnoreMemo[rel]
    ELSE shouldIgnore(rel, ignoreInstance, extraIgnore)

(***************************************************************************)
(* File Collector: collectSourceFiles.  The list holds the relative paths  *)
(* (full is the root joined with rel).                                     *)
(***************************************************************************)

RECURSIVE collectSourceFiles(_, _, _, _, _, _, _)
RECURSIVE CollectEntries(_, _, _, _, _, _, _, _)
CollectEntries(entries, dir, paths, rev, ignoreInstance, extraIgnore, extensions, list) ==
    IF Len(entries) = 0 THEN list
    ELSE LET name == entries[1]
             rel == IF dir = "" THEN name ELSE dir \o "/" \o name
             rest == Tail(entries)
         IN  IF Ignored(rel, ignoreInstance, extraIgnore)
             THEN CollectEntries(rest, dir, paths, rev, ignoreInstance, extraIgnore,
                                 extensions, list)
             ELSE IF IsDirectory(rel, paths)
             THEN CollectEntries(rest, dir, paths, rev, ignoreInstance, extraIgnore,
                                 extensions,
                                 collectSourceFiles(rel, paths, rev, ignoreInstance,
                                                    extraIgnore, extensions, list))
             ELSE IF \E k \in 1..Len(extensions) : EndsWith(name, extensions[k])
             THEN CollectEntries(rest, dir, paths, rev, ignoreInstance, extraIgnore,
                                 extensions, Append(list, rel))
             ELSE CollectEntries(rest, dir, paths, rev, ignoreInstance, extraIgnore,
                                 extensions, list)

collectSourceFiles(dir, paths, rev, ignoreInstance, extraIgnore, extensions, list) ==
    CollectEntries(Readdir(dir, paths, rev), dir, paths, rev, ignoreInstance,
                   extraIgnore, extensions, list)

(***************************************************************************)
(* buildTree                                                               *)
(***************************************************************************)

\* maxDepth when options.maxTreeDepth is not given
DefaultMaxDepth == 5

RECURSIVE buildTree(_, _, _, _, _, _, _)
RECURSIVE TreeChildren(_, _, _, _, _, _, _, _)
TreeChildren(entries, dir, paths, rev, ignoreInstance, extraIgnore, maxDepth, depth) ==
    IF Len(entries) = 0 THEN <<>>
    ELSE LET name == entries[1]
             rel == IF dir = "" THEN name ELSE dir \o "/" \o name
             rest == TreeChildren(Tail(entries), dir, paths, rev, ignoreInstance,
                                  extraIgnore, maxDepth, depth)
         IN  IF Ignored(rel, ignoreInstance, extraIgnore) THEN rest
             ELSE IF IsDirectory(rel, paths)
             THEN <<buildTree(rel, paths, rev, ignoreInstance, extraIgnore, maxDepth,
                              depth + 1)>> \o rest
             ELSE <<[name |-> name, leaf |-> TRUE, children |-> <<>>]>> \o rest

buildTree(dir, paths, rev, ignoreInstance, extraIgnore, maxDepth, depth) ==
    LET name == IF dir = "" THEN "root" ELSE Basename(dir)
    IN  IF depth >= maxDepth THEN [name |-> name, leaf |-> FALSE, children |-> <<>>]
        ELSE [name |-> name, leaf |-> FALSE,
              children |-> TreeChildren(Readdir(dir, paths, rev), dir, paths, rev,
                                        ignoreInstance, extraIgnore, maxDepth, depth)]

(***************************************************************************)
(* Lexical Extractor: extractImports                                       *)
(***************************************************************************)

\* spec.trim()
RECURSIVE TrimLeft(_)
TrimLeft(s) == IF s # "" /\ CharAt(s, 1) = " " THEN TrimLeft(Tail(s)) ELSE s

RECURSIVE TrimRight(_)
TrimRight(s) ==
    IF s # "" /\ CharAt(s, Len(s)) = " " THEN TrimRight(SubSeq(s, 1, Len(s) - 1)) ELSE s

Trim(s) == TrimRight(TrimLeft(s))

\* one pass of one of the three import patterns over the content
RECURSIVE ScanImports(_, _, _)
ScanImports(content, re, out) ==
    IF Len(content) = 0 THEN out
    ELSE LET m == content[1]
         IN  IF m.re # re \/ m.spec = "" \/ ~StartsWith(m.spec, ".")
             THEN ScanImports(Tail(content), re, out)
             ELSE ScanImports(Tail(content), re, SetAdd(out, Trim(m.spec)))

extractImports(content) ==
    ScanImports(content, "dynamic",
                ScanImports(content, "from", ScanImports(content, "require", <<>>)))

RECURSIVE MapBackslash(_)
MapBackslash(imports) ==
    IF Len(imports) = 0 THEN <<>>
    ELSE <<ReplaceBackslash(imports[1])>> \o MapBackslash(Tail(imports))

\* the record buildProjectMap pushes for one file that was read
FileRecord(rel, content) ==
    [path |-> ReplaceBackslash(rel), imports |-> MapBackslash(extractImports(content))]

(***************************************************************************)
(* toSummaryString: the summary is kept as its lines, before join('\n').   *)
(***************************************************************************)

\* map.files.slice(0, 200)
SummaryMaxFiles == 200

\* f.imports.slice(0, 8)
SummaryMaxImports == 8

\* treeToString(node, indent), as lines
RECURSIVE treeToString(_, _)
RECURSIVE TreeLines(_, _)
TreeLines(children, indent) ==
    IF Len(children) = 0 THEN <<>>
    ELSE (IF children[1].leaf THEN <<indent \o "  " \o children[1].name>>
          ELSE <<indent \o "  " \o children[1].name \o "/">>
                   \o treeToString(children[1], indent \o "  "))
         \o TreeLines(Tail(children), indent)

treeToString(node, indent) == TreeLines(node.children, indent)

\* the lines of the files of the map
RECURSIVE FileLines(_)
FileLines(files) ==
    IF Len(files) = 0 THEN <<>>
    ELSE <<"  " \o files[1].path>>
         \o (IF Len(files[1].imports) = 0 THEN <<>>
             ELSE <<"    imports: "
                      \o JoinWith(Slice(files[1].imports, SummaryMaxImports), ", ")>>)
         \o FileLines(Tail(files))

toSummaryString(tree, files) ==
    <<"--- PROJECT MAP (structure + relationships; use to avoid hallucinating files) ---",
      "FOLDER TREE:">> \o treeToString(tree, "")
        \o <<"", "FILES (signatures + imports -> exports):">> \o FileLines(Slice(files, SummaryMaxFiles))
        \o <<"--- END PROJECT MAP ---">>

\* map = { tree, files }; map.summary = toSummaryString(map)
WithSummary(tree, files) ==
    [tree |-> tree, files |-> files, summary |-> toSummaryString(tree, files)]

(***************************************************************************)
(* Cache Layer: calculateMapHash, saveProjectMap, loadProjectMap           *)
(***************************************************************************)

\* faulty variant of HashItem: the size is left out of the digest
HashItemWithoutSize(rel, d, c) ==
    LET content == ReadFileSync(rel, d, c)
    IN  IF content = NoFile
        THEN [rel |-> rel, missing |-> TRUE, size |-> 0, contentHash |-> <<>>]
        ELSE [rel |-> rel, missing |-> FALSE, size |-> 0,
              contentHash |-> Slice(content, HashPrefixLen)]

\* what is folded into the digest for one file: rel:size:contentHash, or
\* rel:missing.  SHA-256 and MD5 are taken to be collision free, so a digest
\* is the sequence of what was folded into it.
HashItem(rel, d, c) ==
    LET content == ReadFileSync(rel, d, c)
    IN  IF content = NoFile
        THEN [rel |-> rel, missing |-> TRUE, size |-> 0, contentHash |-> <<>>]
        ELSE [rel |-> rel, missing |-> FALSE, size |-> Len(content),
              contentHash |-> Slice(content, HashPrefixLen)]

RECURSIVE HashFold(_, _, _)
HashFold(sorted, d, c) ==
    IF Len(sorted) = 0 THEN <<>>
    ELSE <<HashItem(sorted[1], d, c)>> \o HashFold(Tail(sorted), d, c)

\* faulty variant of calculateMapHash: the list is folded as it comes
calculateMapHashUnsorted(fileList, d, c) ==
    [hash |-> HashFold(fileList, d, c), fileList |-> fileList]

\* the digest, and fileList as the call leaves the caller's array
calculateMapHash(fileList, d, c) ==
    LET sorted == SortStrings(fileList)
    IN  [hash |-> HashFold(sorted, d, c), fileList |-> fileList]

\* faulty variant of saveProjectMap: the error of writeFileSync is not caught
saveProjectMapUncaught(c, map, fileHash, outcome) ==
    IF outcome = "ok"
    THEN [cache |-> CacheEntry(fileHash, map, VERSION), saved |-> TRUE, raised |-> FALSE]
    ELSE IF outcome = "partial"
    THEN [cache |-> CacheGarbage, saved |-> FALSE, raised |-> TRUE]
    ELSE [cache |-> c, saved |-> FALSE, raised |-> TRUE]

\* outcome is what writeFileSync does: "ok", "denied" (it throws before the
\* file is touched) or "partial" (it throws after truncating the file).
\* saved is the value returned; raised: an exception leaves the function.
saveProjectMap(c, map, fileHash, outcome) ==
    IF outcome = "ok"
    THEN [cache |-> CacheEntry(fileHash, map, VERSION), saved |-> TRUE, raised |-> FALSE]
    ELSE IF outcome = "partial"
    THEN [cache |-> CacheGarbage, saved |-> FALSE, raised |-> FALSE]
    ELSE [cache |-> c, saved |-> FALSE, raised |-> FALSE]

\* faulty variant of loadProjectMap: the version is not compared
loadProjectMapAnyVersion(c, expectedHash) ==
    IF c.kind # "entry" THEN [hit |-> FALSE, map |-> NoMap, raised |-> FALSE]
    ELSE IF c.hash # expectedHash THEN [hit |-> FALSE, map |-> NoMap, raised |-> FALSE]
    ELSE [hit |-> TRUE, map |-> c.map, raised |-> FALSE]

\* hit: a map is returned; raised: an exception leaves the function
loadProjectMap(c, expectedHash) ==
    IF c.kind = "absent" THEN [hit |-> FALSE, map |-> NoMap, raised |-> FALSE]
    ELSE IF c.kind = "garbage" THEN [hit |-> FALSE, map |-> NoMap, raised |-> FALSE]
    ELSE IF c.version # VERSION THEN [hit |-> FALSE, map |-> NoMap, raised |-> FALSE]
    ELSE IF c.hash # expectedHash THEN [hit |-> FALSE, map |-> NoMap, raised |-> FALSE]
    ELSE [hit |-> TRUE, map |-> c.map, raised |-> FALSE]

(***************************************************************************)
(* The cache of analysis results (utils/cache.js): the file                *)
(* .legacylens-cache.json of the project directory.  The file is absent,   *)
(* holds text that is no JSON document, or holds a JSON document: the      *)
(* sequence of its <<key, value>> members.                                 *)
(***************************************************************************)

\* undefined, as the value of a property
Undefined == "<undefined>"

CacheKeys == <<"hash", "report", "model", "timestamp", "version">>

\* JSON.stringify(obj, null, 2): the members in the order of the keys; a
\* property whose value is undefined is left out
RECURSIVE JsonStringify(_, _)
JsonStringify(obj, keys) ==
    IF Len(keys) = 0 THEN <<>>
    ELSE (IF obj[keys[1]] = Undefined THEN <<>> ELSE << <<keys[1], obj[keys[1]]>> >>)
         \o JsonStringify(obj, Tail(keys))

\* the value of a member of a document; undefined when it has none
RECURSIVE MemberOf(_, _)
MemberOf(doc, key) ==
    IF Len(doc) = 0 THEN Undefined
    ELSE IF doc[1][1] = key THEN doc[1][2]
    ELSE MemberOf(Tail(doc), key)

\* JSON.parse(content), read through the properties of CacheKeys
JsonParse(doc) == [k \in ToSet(CacheKeys) |-> MemberOf(doc, k)]

\* what loadCache returns when it returns null
NoCache == [found |-> FALSE, data |-> [k \in ToSet(CacheKeys) |-> Undefined]]

\* loadCache(projectPath): null when the file is absent or cannot be parsed
loadCache(c) ==
    IF c.kind = "absent" THEN NoCache
    ELSE IF c.kind = "garbage" THEN NoCache
    ELSE [found |-> TRUE, data |-> JsonParse(c.text)]

\* the object saveCache writes
CacheData(projectHash, report, model, now) ==
    [hash |-> projectHash, report |-> report, model |-> model,
     timestamp |-> now, version |-> VERSION]

\* saveCache(projectPath, projectHash, report, model): outcome is what
\* writeFileSync does, as in saveProjectMap; saved is the value returned
saveCache(c, projectHash, report, model, now, outcome) ==
    IF outcome = "ok"
    THEN [cache |-> [kind |-> "json",
                     text |-> JsonStringify(CacheData(projectHash, report, model, now),
                                            CacheKeys)],
          saved |-> TRUE]
    ELSE IF outcome = "partial"
    THEN [cache |-> CacheGarbage, saved |-> FALSE]
    ELSE [cache |-> c, saved |-> FALSE]

(***************************************************************************)
(* State.                                                                  *)
(***************************************************************************)

VARIABLES
    disk,       \* source path -> content, NoFile when absent
    fsRev,      \* the order in which the file system enumerates a directory
    fault,      \* what of the root cannot be read, see NoFault
    analysisCache, \* the file .legacylens-cache.json of the root
    cacheFile,  \* .legacylens-map.json in the root
    active,     \* the processes that call buildProjectMap
    bld,        \* process -> the locals of its buildProjectMap call
    prev,       \* history: the last build whose save stands, see Save
    map,        \* the files of the ProjectMap the graph queries are asked about
    out         \* the last graph query and what it returned

vars == <<disk, fsRev, fault, cacheFile, analysisCache, active, bld, prev, map, out>>

Builders == {"b1", "b2"}

\* options.include: not given, or a caller's list
IncludeChoices == { <<>>, <<".js", ".json">> }

\* options.maxTreeDepth: <<>> when not given, <<d>> when given
\* maxFileSize = options.maxFileSize != null ? options.maxFileSize : 100000;
\* a size counts the lines of a content
DefaultMaxFileSize == 100000

MaxFileSizeOf(maxFileSize) ==
    IF Len(maxFileSize) = 0 THEN DefaultMaxFileSize ELSE maxFileSize[1]

\* if (content.length > maxFileSize) content = content.slice(0, maxFileSize)
Truncated(content, maxFileSize) ==
    IF Len(content) > maxFileSize THEN Slice(content, maxFileSize) ELSE content

MaxDepthOf(maxTreeDepth) ==
    IF Len(maxTreeDepth) = 0 THEN DefaultMaxDepth ELSE maxTreeDepth[1]

\* extensions of buildProjectMap
Extensions(include) ==
    IF Len(include) > 0
    THEN SelectSeq(include, LAMBDA e : StartsWith(e, "."))
    ELSE SOURCE_EXTENSIONS

\* history: no build has saved, or its cache file was damaged since
NoPrev == [valid |-> FALSE, files |-> <<>>, include |-> <<>>, hash |-> <<>>,
           disk |-> <<>>]

\* a process outside buildProjectMap that has not called it yet.  disturbed
\* and base are history: whether the root changed since the call began, and
\* the build whose save stood when the call began.
IdleBuilder ==
    [pc |-> "idle", force |-> FALSE, include |-> <<>>, fileList |-> <<>>,
     fileHash |-> <<>>, maxDepth |-> DefaultMaxDepth,
     maxFileSize |-> DefaultMaxFileSize, tree |-> NoTree, idx |-> 0,
     files |-> <<>>,
     result |-> NoMap, fromCache |-> FALSE, extracted |-> 0,
     disturbed |-> FALSE, base |-> NoPrev]

NoOut == [op |-> "none", a1 |-> "", a2 |-> "", val |-> <<>>, before |-> <<>>]

\* something outside the builds changed the root: a call in progress is
\* marked, and what a returned call left behind is no longer looked at
Disturb(locals) ==
    IF locals.pc \in {"idle", "done"} THEN IdleBuilder
    ELSE [locals EXCEPT !.disturbed = TRUE]

\* the locals that are dead once the call has returned
Returned(locals, m, cached) ==
    [locals EXCEPT !.pc = "done", !.result = m, !.fromCache = cached,
                   !.tree = NoTree, !.files = <<>>, !.idx = 0]

(***************************************************************************)
(* buildProjectMap, one action per step of the call.                       *)
(***************************************************************************)

\* faulty variant of AfterHash: the cache is tried whatever forceRebuild is
AfterHashTryCache(force) == "load"

\* if (!forceRebuild) { ... loadProjectMap ... }: where the call goes on
\* once the hash is computed
AfterHash(force) == IF force THEN "tree" ELSE "load"

\* the call up to the hash: options, collectSourceFiles, calculateMapHash
Start(b, force, include, maxTreeDepth, maxFileSize) ==
    /\ b \in active
    /\ bld[b].pc \in {"idle", "done"}
    /\ LET fileList == collectSourceFiles("", FsPaths(disk, cacheFile, fault), fsRev, {},
                                          <<>>, Extensions(include), <<>>)
           h == calculateMapHash(fileList, FsDisk(disk, fault), cacheFile)
       IN  bld' = [bld EXCEPT ![b] =
                     [IdleBuilder EXCEPT
                        !.pc = AfterHash(force),
                        !.force = force,
                        !.include = include,
                        !.maxDepth = MaxDepthOf(maxTreeDepth),
                        !.maxFileSize = MaxFileSizeOf(maxFileSize),
                        !.fileList = h.fileList,
                        !.fileHash = h.hash,
                        !.base = prev]]
    /\ UNCHANGED <<disk, fsRev, fault, cacheFile, active, prev, map, out, analysisCache>>

\* if (!forceRebuild) { cached = loadProjectMap(...); if (cached) return cached }
Load(b) ==
    /\ b \in active
    /\ bld[b].pc = "load"
    /\ LET r == loadProjectMap(FsCache(cacheFile, fault), bld[b].fileHash)
       IN  bld' = [bld EXCEPT ![b] =
                     IF r.raised THEN [@ EXCEPT !.pc = "failed"]
                     ELSE IF r.hit
                     THEN Returned(@, WithSummary(r.map.tree, r.map.files), TRUE)
                     ELSE [@ EXCEPT !.pc = "tree"]]
    /\ UNCHANGED <<disk, fsRev, fault, cacheFile, active, prev, map, out, analysisCache>>

\* const tree = buildTree(...)
Tree(b) ==
    /\ b \in active
    /\ bld[b].pc = "tree"
    /\ bld' = [bld EXCEPT ![b] =
                 [@ EXCEPT !.pc = "read", !.idx = 1,
                           !.tree = buildTree("", FsPaths(disk, cacheFile, fault), fsRev,
                                              {}, <<>>, bld[b].maxDepth, 0)]]
    /\ UNCHANGED <<disk, fsRev, fault, cacheFile, active, prev, map, out, analysisCache>>

\* one iteration of the loop over fileList: read, extract, push
ReadFile(b) ==
    /\ b \in active
    /\ bld[b].pc = "read"
    /\ bld[b].idx <= Len(bld[b].fileList)
    /\ LET rel == bld[b].fileList[bld[b].idx]
           content == ReadFileSync(rel, FsDisk(disk, fault), cacheFile)
       IN  bld' = [bld EXCEPT ![b] =
                     IF content = NoFile
                     THEN [@ EXCEPT !.idx = @ + 1]
                     ELSE [@ EXCEPT !.idx = @ + 1,
                                    !.files = Append(@, FileRecord(rel,
                                                 Truncated(content, bld[b].maxFileSize))),
                                    !.extracted = @ + 1]]
    /\ UNCHANGED <<disk, fsRev, fault, cacheFile, active, prev, map, out, analysisCache>>

\* faulty variant of Save: the cache is written before the loop has ended
SaveBeforeLoopEnds(b, outcome) ==
    /\ b \in active
    /\ bld[b].pc = "read"
    /\ fault.root \/ outcome = "denied"
    /\ LET m == WithSummary(bld[b].tree, bld[b].files)
           s == saveProjectMap(cacheFile, m, bld[b].fileHash, outcome)
       IN  /\ cacheFile' = s.cache
           /\ bld' = [bld EXCEPT ![b] =
                         IF s.raised THEN [@ EXCEPT !.pc = "failed"]
                         ELSE Returned(@, m, FALSE)]
           /\ prev' = IF s.saved
                      THEN [valid |-> ~bld[b].disturbed, files |-> m.files,
                            include |-> bld[b].include, hash |-> bld[b].fileHash,
                            disk |-> disk]
                      ELSE IF s.cache # cacheFile THEN NoPrev
                      ELSE prev
    /\ UNCHANGED <<disk, fsRev, fault, active, map, out, analysisCache>>

\* map = { tree, files }; saveProjectMap(...); return map.
\* prev records the build when its save succeeded: its options, the files
\* it returned, the hash it stored and the sources it was built from.
Save(b, outcome) ==
    /\ b \in active
    /\ bld[b].pc = "read"
    /\ bld[b].idx > Len(bld[b].fileList)
    /\ fault.root \/ outcome = "denied"
    /\ LET m == WithSummary(bld[b].tree, bld[b].files)
           s == saveProjectMap(cacheFile, m, bld[b].fileHash, outcome)
       IN  /\ cacheFile' = s.cache
           /\ bld' = [bld EXCEPT ![b] =
                         IF s.raised THEN [@ EXCEPT !.pc = "failed"]
                         ELSE Returned(@, m, FALSE)]
           /\ prev' = IF s.saved
                      THEN [valid |-> ~bld[b].disturbed, files |-> m.files,
                            include |-> bld[b].include, hash |-> bld[b].fileHash,
                            disk |-> disk]
                      ELSE IF s.cache # cacheFile THEN NoPrev
                      ELSE prev
    /\ UNCHANGED <<disk, fsRev, fault, active, map, out, analysisCache>>

(***************************************************************************)
(* The environment of the builds.  With one process the root changes       *)
(* between its calls; with several, between any two steps.                 *)
(***************************************************************************)

EnvMayAct ==
    \/ Cardinality(active) > 1
    \/ \A x \in active : bld[x].pc \in {"idle", "done"}

\* an editor rewrites a source file
Modify(p, content) ==
    /\ EnvMayAct
    /\ disk[p] # NoFile
    /\ content # disk[p]
    /\ disk' = [disk EXCEPT ![p] = content]
    /\ bld' = [x \in Builders |-> Disturb(bld[x])]
    /\ UNCHANGED <<fsRev, fault, cacheFile, active, prev, map, out, analysisCache>>

\* the cache file is deleted, truncated, or is one an older tool version left
DamageCache(how) ==
    /\ EnvMayAct
    /\ \/ how = "delete" /\ cacheFile.kind # "absent" /\ cacheFile' = CacheAbsent
       \/ how = "truncate" /\ cacheFile.kind = "entry" /\ cacheFile' = CacheGarbage
       \/ how = "oldVersion" /\ cacheFile.kind = "entry" /\ cacheFile.version = VERSION
            /\ cacheFile' = [cacheFile EXCEPT !.version = OtherVersion]
    /\ bld' = [x \in Builders |-> Disturb(bld[x])]
    /\ prev' = NoPrev
    /\ UNCHANGED <<disk, fsRev, fault, active, map, out, analysisCache>>

BuildInit ==
    /\ disk \in { d \in [SrcPaths -> UNION { ContentsOf(p) : p \in SrcPaths }] :
                    \A p \in SrcPaths : d[p] \in ContentsOf(p) }
    /\ fsRev \in BOOLEAN
    /\ fault = NoFault
    /\ cacheFile = CacheAbsent
    /\ analysisCache = CacheAbsent
    /\ bld = [x \in Builders |-> IdleBuilder]
    /\ prev = NoPrev
    /\ map = <<>>
    /\ out = NoOut

Init ==
    /\ BuildInit
    /\ active = {"b1"}

\* (the bound names differ from the actions' parameter names on purpose)
Next ==
    \/ \E proc \in Builders, fr \in BOOLEAN, inc \in IncludeChoices :
          Start(proc, fr, inc, <<>>, <<>>)
    \/ \E proc \in Builders : Load(proc)
    \/ \E proc \in Builders : Tree(proc)
    \/ \E proc \in Builders : ReadFile(proc)
    \/ \E proc \in Builders, wr \in {"ok", "denied", "partial"} : Save(proc, wr)
    \/ \E path \in SrcPaths : \E text \in ContentsOf(path) : Modify(path, text)
    \/ \E kind \in {"delete", "truncate", "oldVersion"} : DamageCache(kind)

Spec == Init /\ [][Next]_vars

(***************************************************************************)
(* The build and its cache: properties of Spec.                            *)
(***************************************************************************)

\* the call of b has returned and the root was left alone since it began
Finished(b) == b \in active /\ bld[b].pc = "done" /\ ~bld[b].disturbed

\* the call of b follows a build with the same options whose save stands
Follows(b) ==
    /\ Finished(b)
    /\ ~bld[b].force
    /\ bld[b].base.valid
    /\ bld[b].base.include = bld[b].include

\* C1: a build that follows a build of the same root with the same options
\* whose cache save succeeded, with no forceRebuild and no file changed in
\* between, returns the files of the first build and extracts nothing.
C1_CacheReuse ==
    \A b \in Builders :
        Follows(b) /\ bld[b].base.disk = disk
            => /\ bld[b].fromCache
               /\ bld[b].extracted = 0
               /\ bld[b].result.files = bld[b].base.files

\* a second build with a caller's extension list that admits .json files
\* came back from the cache
C1_Witness ==
    \E b \in Builders :
        /\ Follows(b) /\ bld[b].base.disk = disk
        /\ bld[b].include = <<".js", ".json">>
        /\ bld[b].fromCache
        /\ Len(bld[b].result.files) = 1
        /\ cacheFile.kind = "entry"

\* the collected files whose content is not the one the earlier build saw
ChangedFiles(b) ==
    { i \in 1..Len(bld[b].fileList) :
        bld[b].base.disk[bld[b].fileList[i]] # disk[bld[b].fileList[i]] }

\* the collected files whose size or hashed prefix is not the one the
\* earlier build saw
VisiblyChangedFiles(b) ==
    { i \in 1..Len(bld[b].fileList) :
        LET was == bld[b].base.disk[bld[b].fileList[i]]
            now == disk[bld[b].fileList[i]]
        IN  \/ Len(was) # Len(now)
            \/ Slice(was, HashPrefixLen) # Slice(now, HashPrefixLen) }

\* the build of b computed another hash than the earlier build, missed the
\* cache and extracted every collected file again
Rebuilt(b) ==
    /\ bld[b].fileHash # bld[b].base.hash
    /\ ~bld[b].fromCache
    /\ bld[b].extracted = Len(bld[b].fileList)

\* C2 as stated: between two builds of the same root, any modification of
\* the content of any collected file changes the hash, so the second build
\* misses the cache and extracts again.
C2_AnyModification ==
    \A b \in Builders : Follows(b) /\ ChangedFiles(b) # {} => Rebuilt(b)

\* C2: between two builds of the same root, a modification that changes the
\* size of a collected file or the prefix of it that is digested changes the
\* hash, so the second build misses the cache and extracts again.
C2_VisibleModification ==
    \A b \in Builders : Follows(b) /\ VisiblyChangedFiles(b) # {} => Rebuilt(b)

\* a rebuild after an edit that kept the size of the file and changed its
\* hashed prefix
C2_Witness ==
    \E b \in Builders :
        /\ Follows(b) /\ Rebuilt(b)
        /\ \E i \in VisiblyChangedFiles(b) :
             Len(bld[b].base.disk[bld[b].fileList[i]]) = Len(disk[bld[b].fileList[i]])
        /\ Len(bld[b].result.files) = 2

\* the persisted entry loadProjectMap accepts for the hash h
ValidEntry(h) ==
    /\ cacheFile.kind = "entry"
    /\ cacheFile.version = VERSION
    /\ cacheFile.hash = h

\* C3: loadProjectMap returns a map only when a persisted entry exists,
\* parses, has the version of the running tool and has the expected hash; in
\* every other case it returns null without raising, and buildProjectMap goes
\* on to a full rebuild: every collected file is read and extracted.
C3_LoadValidity ==
    [][\A b \in Builders :
         /\ bld'[b].pc # "failed"
         /\ bld[b].pc = "load" /\ bld'[b].pc = "done"
              => /\ ValidEntry(bld[b].fileHash)
                 /\ bld'[b].fromCache
                 /\ bld'[b].result = cacheFile.map
                 /\ bld'[b].extracted = 0
         /\ bld[b].pc = "load" /\ ~ValidEntry(bld[b].fileHash)
              => bld'[b].pc = "tree"
         /\ bld[b].pc = "read" /\ bld'[b].pc = "done"
              => /\ ~bld'[b].fromCache
                 /\ bld'[b].extracted = Len(bld[b].fileList)
                 /\ Len(bld'[b].result.files) = Len(bld[b].fileList)]_vars

\* a load has just refused an entry with the right hash that an older
\* version of the tool wrote, and the build goes on to rebuild
C3_Witness ==
    \E b \in Builders :
        /\ b \in active /\ bld[b].pc = "tree" /\ ~bld[b].force
        /\ cacheFile.kind = "entry"
        /\ cacheFile.version # VERSION
        /\ cacheFile.hash = bld[b].fileHash

\* a file that was collected and is gone when it is hashed
GoneFile == "gone.js"

\* every order of the list seq
Orders(seq) ==
    { p \in [1..Len(seq) -> ToSet(seq)] : \A x \in ToSet(seq) : \E i \in 1..Len(seq) : p[i] = x }

\* C4: for an unchanged file set, calculateMapHash returns the same value for
\* every permutation of the file list, and leaves the list it was given in
\* its order.
C4_HashOrderFree ==
    \A b \in Builders :
        b \in active /\ bld[b].pc \in {"load", "tree"} /\ ~bld[b].disturbed
            => LET given == Append(bld[b].fileList, GoneFile)
               IN  /\ calculateMapHash(bld[b].fileList, disk, cacheFile).hash = bld[b].fileHash
                   /\ \A p \in Orders(bld[b].fileList) :
                        calculateMapHash(p, disk, cacheFile).hash = bld[b].fileHash
                   /\ \A p \in Orders(given) :
                        LET h == calculateMapHash(p, disk, cacheFile)
                        IN  /\ h.fileList = p
                            /\ h.hash = calculateMapHash(given, disk, cacheFile).hash

\* a build has hashed a list that the walk did not deliver in sorted order
C4_Witness ==
    \E b \in Builders :
        /\ b \in active /\ bld[b].pc \in {"load", "tree"} /\ ~bld[b].disturbed
        /\ Len(bld[b].fileList) = 2
        /\ bld[b].fileList # SortStrings(bld[b].fileList)

(***************************************************************************)
(* The graph queries.  They are functions of a ProjectMap: each query is   *)
(* asked of maps drawn from a bounded set, and `out` keeps the question    *)
(* and the answer.  The root and the builds play no part.                  *)
(***************************************************************************)

\* the most files a map that is queried has
MaxFiles == 2

\* the sequences of at most n distinct elements of S
DistinctSeqs(S, n) == UNION { { q \in [1..k -> S] : NoDup(q) } : k \in 0..n }

\* no build is running and none has run
NoBuilds ==
    /\ disk = [p \in SrcPaths |-> <<>>]
    /\ fsRev = FALSE
    /\ fault = NoFault
    /\ cacheFile = CacheAbsent
    /\ analysisCache = CacheAbsent
    /\ active = {}
    /\ bld = [x \in Builders |-> IdleBuilder]
    /\ prev = NoPrev

\* the paths a file index may hold
ResolvePaths ==
    {"b", "b.js", "b.ts", "util.js", "src/b.js", "b.py", "src/b.py", "pkg/src/b.py"}
        \cup { "util/index" \o ResolveExts[i] : i \in 1..Len(ResolveExts) }

\* the files that import, and what they import
FromChoices == {"a.js", "src/a.js"}

SpecifierChoices == {"./b", "./b.js", "./util", "../util", "fs", "b"}

\* the maps a file index is taken from
ResolveMaps ==
    { [i \in 1..Len(q) |-> [path |-> q[i], imports |-> <<>>]] :
        q \in DistinctSeqs(ResolvePaths, MaxFiles) }

ResolveInit ==
    /\ NoBuilds
    /\ map \in ResolveMaps
    /\ out = NoOut

\* resolveImportPath(fromFile, importPath, fileMap) on the index of the map
QResolve(fromFile, importPath) ==
    /\ out' = [op |-> "resolve", a1 |-> fromFile, a2 |-> importPath,
               val |-> resolveImportPath(fromFile, importPath, MapKeys(map)),
               before |-> <<>>]
    /\ UNCHANGED <<disk, fsRev, fault, cacheFile, active, bld, prev, map, analysisCache>>

ResolveNext == \E src \in FromChoices, imp \in SpecifierChoices : QResolve(src, imp)

SpecResolve == ResolveInit /\ [][ResolveNext]_vars

\* the paths of the files of a map whose graph is queried
GraphPaths == {"a.js", "lib/b.js", "lib/index.js"}

\* the imports a file of such a map may have
ImportChoices ==
    { <<>>, <<"./lib/b">>, <<"./a", "fs">>, <<"../a", "./b">>, <<"./missing">>, <<"./lib">> }

\* the focus paths a caller may give
FocusChoices ==
    GraphPaths \cup {"./a.js", "lib\\b.js", "zzz.js", "./zzz.js", "lib\\zzz.js"}

\* the maps whose graph is queried: distinct paths, each with its imports
GraphMaps ==
    UNION { { [i \in 1..Len(q) |-> [path |-> q[i], imports |-> m[i]]] :
                m \in [1..Len(q) -> ImportChoices] } :
            q \in DistinctSeqs(GraphPaths, MaxFiles) }

GraphInit ==
    /\ NoBuilds
    /\ map \in GraphMaps
    /\ out = NoOut

\* getAffectedFiles(map, relativeFilePath)
QAffected(relativeFilePath) ==
    /\ out' = [op |-> "affected", a1 |-> relativeFilePath, a2 |-> "",
               val |-> getAffectedFiles(map, relativeFilePath), before |-> <<>>]
    /\ UNCHANGED <<disk, fsRev, fault, cacheFile, active, bld, prev, map, analysisCache>>

\* verifyProjectMap on the map
QVerify ==
    /\ out' = [op |-> "verify", a1 |-> "", a2 |-> "", val |-> verifyMap(map),
               before |-> <<>>]
    /\ UNCHANGED <<disk, fsRev, fault, cacheFile, active, bld, prev, map, analysisCache>>

\* the one import verifyProjectMap reported is taken out of its file, and
\* verifyProjectMap runs again
RemoveBrokenAndVerify ==
    /\ out.op = "verify"
    /\ Len(out.val.brokenImports) = 1
    /\ LET broken == out.val.brokenImports[1]
           fixed == [i \in 1..Len(map) |->
                       IF map[i].path = broken.from
                       THEN [map[i] EXCEPT
                               !.imports = SelectSeq(@, LAMBDA x : x # broken.import)]
                       ELSE map[i]]
       IN  /\ map' = fixed
           /\ out' = [op |-> "reverify", a1 |-> broken.from, a2 |-> broken.import,
                      val |-> verifyMap(fixed), before |-> out.val]
    /\ UNCHANGED <<disk, fsRev, fault, cacheFile, active, bld, prev, analysisCache>>

(***************************************************************************)
(* generateMermaidGraph: the rendering of the dependency graph.  A call    *)
(* yields its text, as lines, and leaves the array it was given in some    *)
(* order.                                                                  *)
(***************************************************************************)

\* maxFiles = 50
MermaidMaxFiles == 50

\* nodeId: .slice(0, 30)
NodeIdLen == 30

\* node name: .slice(0, 25)
NodeNameLen == 25

Digits == "0123456789"

\* p.replace(/[^a-zA-Z0-9]/g, '_')
RECURSIVE ReplaceNonAlnum(_)
ReplaceNonAlnum(p) ==
    IF p = "" THEN ""
    ELSE (IF IndexOf(UpperChars \o LowerChars \o Digits, CharAt(p, 1)) = 0
          THEN "_" ELSE CharAt(p, 1)) \o ReplaceNonAlnum(Tail(p))

\* .replace(/^(\d)/, 'n$1')
PrefixDigit(clean) ==
    IF clean # "" /\ IndexOf(Digits, CharAt(clean, 1)) # 0 THEN "n" \o clean ELSE clean

nodeId(p) ==
    IF p = "" THEN "file" ELSE Slice(PrefixDigit(ReplaceNonAlnum(p)), NodeIdLen)

\* array.sort((a, b) => b.imports.length - a.imports.length): stable, the
\* records with more imports first
RECURSIVE InsertByImports(_, _)
InsertByImports(sorted, f) ==
    IF Len(sorted) = 0 THEN <<f>>
    ELSE IF Len(f.imports) > Len(sorted[1].imports) THEN <<f>> \o sorted
    ELSE <<sorted[1]>> \o InsertByImports(Tail(sorted), f)

RECURSIVE SortByImports(_)
SortByImports(files) ==
    IF Len(files) = 0 THEN <<>>
    ELSE InsertByImports(SortByImports(SubSeq(files, 1, Len(files) - 1)),
                         files[Len(files)])

\* files.filter(f => f.imports && f.imports.length > 0): a new array
FilesWithImports(files) == SelectSeq(files, LAMBDA f : Len(f.imports) > 0)

\* faulty variant of SortedForGraph: the sort runs on the array of the caller
SortedInPlace(files) ==
    [sorted |-> SortByImports(FilesWithImports(files)), files |-> SortByImports(files)]

\* filesWithImports.sort(...): the array filter returned is sorted in place;
\* `files` is the array of the caller after that
SortedForGraph(files) ==
    [sorted |-> SortByImports(FilesWithImports(files)), files |-> files]

\* the targets of the imports of one file that resolve to a key of fileMap,
\* added to a Set
RECURSIVE AddTargets(_, _, _, _)
AddTargets(from, imports, keys, targets) ==
    IF Len(imports) = 0 THEN targets
    ELSE AddTargets(from, Tail(imports), keys,
                    AddIfResolved(targets, resolveImportPath(from, imports[1], keys)))

\* first pass: importedFiles
RECURSIVE ImportedFiles(_, _, _)
ImportedFiles(limited, keys, targets) ==
    IF Len(limited) = 0 THEN targets
    ELSE ImportedFiles(Tail(limited), keys,
                       AddTargets(limited[1].path, limited[1].imports, keys, targets))

\* the ids of a sequence of paths, added to a Set
RECURSIVE AddIds(_, _)
AddIds(ids, paths) ==
    IF Len(paths) = 0 THEN ids ELSE AddIds(SetAdd(ids, nodeId(paths[1])), Tail(paths))

\* [...fileMap.keys()].find(p => nodeId(p) === id), as its node line
RECURSIVE NodeLine(_, _)
NodeLine(id, keys) ==
    IF Len(keys) = 0 THEN <<>>
    ELSE IF nodeId(keys[1]) = id
    THEN <<"  " \o id \o "[\"" \o Slice(Basename(keys[1]), NodeNameLen) \o "\"]">>
    ELSE NodeLine(id, Tail(keys))

\* second pass: one line for each node
RECURSIVE NodeLines(_, _)
NodeLines(ids, keys) ==
    IF Len(ids) = 0 THEN <<>> ELSE NodeLine(ids[1], keys) \o NodeLines(Tail(ids), keys)

\* the edges out of one file, added to a Set
RECURSIVE AddEdges(_, _, _, _, _)
AddEdges(from, imports, keys, ids, edges) ==
    IF Len(imports) = 0 THEN edges
    ELSE AddEdges(from, Tail(imports), keys, ids,
                  IF /\ resolveImportPath(from, imports[1], keys) # Null
                     /\ Has(ids, nodeId(resolveImportPath(from, imports[1], keys)))
                  THEN SetAdd(edges, "  " \o nodeId(from) \o " --> "
                                       \o nodeId(resolveImportPath(from, imports[1], keys)))
                  ELSE edges)

\* third pass: the edges
RECURSIVE EdgeLines(_, _, _, _)
EdgeLines(limited, keys, ids, edges) ==
    IF Len(limited) = 0 THEN edges
    ELSE EdgeLines(Tail(limited), keys, ids,
                   AddEdges(limited[1].path, limited[1].imports, keys, ids, edges))

\* the lines, given the files chosen, the keys of fileMap and the node ids
GraphLines(limited, keys, ids) ==
    NodeLines(ids, keys) \o EdgeLines(limited, keys, ids, <<>>)

\* the three passes over the files chosen
GraphText(limited, keys) ==
    GraphLines(limited, keys,
               AddIds(AddIds(<<>>, [i \in 1..Len(limited) |-> limited[i].path]), ImportedFiles(limited, keys, <<>>)))

\* text: the lines returned; files: the array of the caller after the call
MermaidResult(files, s) ==
    [text |-> IF Len(s.sorted) = 0 THEN <<>>
              ELSE GraphText(Slice(s.sorted, MermaidMaxFiles), MapKeys(files)),
     files |-> s.files]

generateMermaidGraph(files) == MermaidResult(files, SortedForGraph(files))

\* options.transitive
TransitiveChoices == {0, 1, 2}

\* getPinnedContext(projectPath, relativeFilePath, { transitive })
QPinned(relativeFilePath, transitive) ==
    /\ out' = [op |-> "pinned", a1 |-> relativeFilePath, a2 |-> "",
               val |-> getPinnedContext(map, relativeFilePath, transitive),
               before |-> transitive]
    /\ UNCHANGED <<disk, fsRev, fault, cacheFile, active, bld, prev, map, analysisCache>>

\* generateMermaidGraph(map.files)
QMermaid ==
    /\ out' = [op |-> "mermaid", a1 |-> "", a2 |-> "",
               val |-> generateMermaidGraph(map).text, before |-> map]
    /\ map' = generateMermaidGraph(map).files
    /\ UNCHANGED <<disk, fsRev, fault, cacheFile, active, bld, prev, analysisCache>>

GraphNext ==
    \/ \E focus \in FocusChoices : QAffected(focus)
    \/ QVerify
    \/ RemoveBrokenAndVerify

SpecGraph == GraphInit /\ [][GraphNext]_vars

(***************************************************************************)
(* The Path Resolver: properties of SpecResolve.                           *)
(***************************************************************************)

\* the file index of the map
FileIndex == { map[i].path : i \in 1..Len(map) }

\* the question asked: the normalized path of the import joined to the
\* directory of the importing file
Joined == JoinWith(NormalizedParts(out.a1, out.a2), "/")

\* the candidates of the second stage, in the order of the extension list
ExtCandidates == [i \in 1..Len(ResolveExts) |-> Joined \o ResolveExts[i]]

\* the index file of Joined for each extension of the list, in its order
IndexCandidates == [i \in 1..Len(ResolveExts) |-> Joined \o "/index" \o ResolveExts[i]]

\* the candidates of cands that the index holds, as positions
Present(cands) == { i \in 1..Len(cands) : cands[i] \in FileIndex }

\* the first candidate of cands that the index holds
FirstPresent(cands) == cands[CHOOSE i \in Present(cands) : \A j \in Present(cands) : i <= j]

\* every candidate of the three stages, in their order
AllCandidates == <<Joined>> \o ExtCandidates \o IndexCandidates

\* C5 as stated: resolveImportPath returns null for a specifier that does
\* not start with '.', whatever the index holds; otherwise it returns the
\* first candidate the index holds in the order: the exact normalized joined
\* path, then joined + ext in the order of the extension list, then
\* joined + '/index' + ext.
C5_FirstCandidate ==
    out.op = "resolve" =>
        /\ ~StartsWith(out.a2, ".") => out.val = Null
        /\ StartsWith(out.a2, ".") /\ Present(AllCandidates) # {}
             => out.val = FirstPresent(AllCandidates)

\* What does hold of the order of the stages: null for a specifier that does
\* not start with '.'; the exact path wins when present, else the first
\* present joined + ext; an index file is returned only when neither is
\* present, and then the first present one; joined + '/index.js' is returned
\* when it is present and no candidate of the first two stages is.
StagesInOrder ==
    out.op = "resolve" =>
        /\ ~StartsWith(out.a2, ".") => out.val = Null
        /\ StartsWith(out.a2, ".") /\ Joined \in FileIndex => out.val = Joined
        /\ StartsWith(out.a2, ".") /\ Joined \notin FileIndex /\ Present(ExtCandidates) # {}
             => out.val = FirstPresent(ExtCandidates)
        /\ (\E i \in 1..Len(ResolveExts) : out.val = IndexCandidates[i])
             => /\ Joined \notin FileIndex
                /\ Present(ExtCandidates) = {}
                /\ out.val = FirstPresent(IndexCandidates)
        /\ (/\ StartsWith(out.a2, ".") /\ Joined \notin FileIndex
            /\ Present(ExtCandidates) = {}
            /\ IndexCandidates[1] \in FileIndex)
             => out.val = IndexCandidates[1]

\* C6 as stated: the index-file fallback tries /index.<ext> for every
\* extension of the list of the extension step: when joined + '/index' + e is
\* the only candidate the index holds, it is returned.
C6_IndexEveryExtension ==
    out.op = "resolve" /\ StartsWith(out.a2, ".") =>
        \A i \in 1..Len(ResolveExts) :
            (/\ Joined \notin FileIndex
             /\ Present(ExtCandidates) = {}
             /\ Present(IndexCandidates) = {i})
              => out.val = IndexCandidates[i]

(***************************************************************************)
(* Impact analysis and verification: properties of SpecGraph.              *)
(***************************************************************************)

\* the entry of the file with path p
EntryOf(p) == map[CHOOSE i \in 1..Len(map) : map[i].path = p]

\* the files an import of the file with path p resolves to
TargetsOf(p) ==
    { resolveImportPath(p, EntryOf(p).imports[k], MapKeys(map)) :
        k \in 1..Len(EntryOf(p).imports) } \ {Null}

\* C7: for every two files X and Y of a map, Y is in the dependents of X if
\* and only if X is in the dependencies of Y.
C7_ImpactSymmetry ==
    out.op = "affected" /\ out.a1 \in FileIndex =>
        \A y \in FileIndex :
            /\ Has(out.val.dependents, y)
                 <=> Has(getAffectedFiles(map, y).dependencies, out.a1)
            /\ Has(out.val.dependencies, y)
                 <=> Has(getAffectedFiles(map, y).dependents, out.a1)

\* the focus file has a dependent whose second import is the one that
\* reaches it, and a file of the map that is no dependent
C7_Witness ==
    /\ out.op = "affected" /\ out.a1 \in FileIndex
    /\ \E y \in FileIndex \ {out.a1} :
         /\ Has(out.val.dependents, y)
         /\ Len(EntryOf(y).imports) = 2
         /\ resolveImportPath(y, EntryOf(y).imports[1], MapKeys(map)) # out.a1
    /\ Len(map) = 2

\* the imports verifyProjectMap counts: (file, specifier) with a relative specifier
CountedImports ==
    UNION { { <<i, k>> : k \in { n \in 1..Len(map[i].imports) :
                                    StartsWith(map[i].imports[n], ".") } } :
            i \in 1..Len(map) }

\* those of them that do not resolve to a file of the map
UnresolvedImports ==
    { c \in CountedImports :
        resolveImportPath(map[c[1]].path, map[c[1]].imports[c[2]], MapKeys(map))
            \notin FileIndex }

\* C8: verifyProjectMap sets totalChecked to the number of relative imports
\* over all files, puts exactly one entry {from, import, reason} in
\* brokenImports for each of them that does not resolve to a file of the map,
\* and sets ok iff brokenImports is empty; when the single broken import of a
\* map is removed, the next run has ok = true and totalChecked one lower.
C8_VerifyCounts ==
    /\ out.op \in {"verify", "reverify"} =>
         /\ out.val.totalChecked = Cardinality(CountedImports)
         /\ Len(out.val.brokenImports) = Cardinality(UnresolvedImports)
         /\ \A c \in UnresolvedImports :
              \E j \in 1..Len(out.val.brokenImports) :
                  /\ out.val.brokenImports[j].from = map[c[1]].path
                  /\ out.val.brokenImports[j].import = map[c[1]].imports[c[2]]
                  /\ DOMAIN out.val.brokenImports[j] = {"from", "import", "reason"}
         /\ out.val.ok <=> out.val.brokenImports = <<>>
    /\ out.op = "reverify" =>
         /\ out.val.ok
         /\ out.val.totalChecked = out.before.totalChecked - 1

\* the single broken import of a map that also has a non-relative import and
\* an import that resolves was removed, and the map was verified again
C8_Witness ==
    /\ out.op = "reverify"
    /\ out.before.totalChecked = 2
    /\ ~out.before.ok
    /\ \E i \in 1..Len(map) : Has(map[i].imports, "fs")

\* C9: for a focus file of the map, `all` has no duplicates and is, as a
\* set, the focus file, its dependencies and its dependents; the dependencies
\* are the non-null resolutions of the imports of the focus file and the
\* dependents are the files with an import that resolves to it.
C9_AllIsUnion ==
    out.op = "affected" /\ out.a1 \in FileIndex =>
        /\ NoDup(out.val.all)
        /\ ToSet(out.val.all)
             = {out.a1} \cup ToSet(out.val.dependencies) \cup ToSet(out.val.dependents)
        /\ ToSet(out.val.dependencies) = TargetsOf(out.a1)
        /\ ToSet(out.val.dependents) = { y \in FileIndex : out.a1 \in TargetsOf(y) }

\* the focus file imports itself and another file
C9_Witness ==
    /\ out.op = "affected" /\ out.a1 \in FileIndex
    /\ Has(out.val.dependencies, out.a1)
    /\ Has(out.val.dependents, out.a1)
    /\ Len(out.val.all) = 2

\* C10 as stated: for a focus path that is not the path of a file of the
\* map, the dependencies and dependents are empty and `all` holds the focus
\* path exactly as the caller gave it.
C10_FocusAsGiven ==
    out.op = "affected" /\ out.a1 \notin FileIndex =>
        out.val = [dependencies |-> <<>>, dependents |-> <<>>, all |-> <<out.a1>>]

\* the focus path with '/' for every backslash and without a leading './'
NormalizedFocus ==
    StripDotSlash(JoinWith(Split(out.a1, "\\"), "/"))

\* C10: for a focus path that, as given and with '/' for every backslash
\* and a leading './' removed, is not the path of a file of the map, the
\* dependencies and dependents are empty and `all` holds that normalized
\* focus path.
C10_FocusNormalized ==
    out.op = "affected" /\ out.a1 \notin FileIndex /\ NormalizedFocus \notin FileIndex =>
        out.val = [dependencies |-> <<>>, dependents |-> <<>>, all |-> <<NormalizedFocus>>]

\* a focus path written with a backslash, of no file of a map with files
C10_Witness ==
    /\ out.op = "affected" /\ out.a1 = "lib\\zzz.js"
    /\ Len(map) = 2
    /\ out.val.all = <<"lib/zzz.js">>

(***************************************************************************)
(* Context pinning: SpecPinned asks getPinnedContext of maps with up to    *)
(* four files, enough for a file three import edges from the focus.        *)
(***************************************************************************)

\* the files of a pinned map, in the order of map.files
PinPaths == <<"a.js", "b.js", "c.js", "d.js">>

\* the imports a file of such a map may have
PinImports == { <<>>, <<"./b">>, <<"./c">>, <<"./d">>, <<"./a", "./c">> }

PinMaps ==
    UNION { { [i \in 1..k |-> [path |-> PinPaths[i], imports |-> m[i]]] :
                m \in [1..k -> PinImports] } : k \in 0..Len(PinPaths) }

PinnedInit ==
    /\ NoBuilds
    /\ map \in PinMaps
    /\ out = NoOut

PinnedNext ==
    \E focus \in ToSet(PinPaths) \cup {"./a.js", "zzz.js"}, levels \in TransitiveChoices :
        QPinned(focus, levels)

SpecPinned == PinnedInit /\ [][PinnedNext]_vars

\* the files of the map one import edge from a file of S, in either direction
Neighbours(S) ==
    S \cup { y \in FileIndex : \E x \in S : x \in FileIndex /\ (y \in TargetsOf(x) \/ x \in TargetsOf(y)) }

\* the paths of a sequence of records
PathsOf(records) == { records[i].path : i \in 1..Len(records) }

\* the paths in the affected result of the file with path p
AllOf(p) == ToSet(getAffectedFiles(map, p).all)

\* C11: with transitive = 0 getPinnedContext returns exactly the records of
\* the map whose path is in affected(focus).all; with transitive >= 1 exactly
\* those in the union of affected(focus).all and the affected results of
\* every direct dependency and dependent, whatever the level; no returned
\* file is more than two import edges from the focus.
C11_OneExtraHop ==
    out.op = "pinned" =>
        /\ out.before = 0
             => out.val.files = SelectSeq(map, LAMBDA f : f.path \in AllOf(out.a1))
        /\ out.before >= 1
             => out.val.files =
                  SelectSeq(map, LAMBDA f :
                      f.path \in AllOf(out.a1) \cup
                          UNION { AllOf(d) : d \in ToSet(out.val.dependencies)
                                                 \cup ToSet(out.val.dependents) })
        /\ PathsOf(out.val.files) \subseteq Neighbours(Neighbours({normalizePath(out.a1)}))

\* a is pinned with transitive = 2 in the chain a -> b -> c -> d: c is
\* returned, d is not
C11_Witness ==
    /\ out.op = "pinned" /\ out.a1 = "a.js" /\ out.before = 2
    /\ Len(map) = 4
    /\ map[1].imports = <<"./b">> /\ map[2].imports = <<"./c">>
    /\ map[3].imports = <<"./d">> /\ map[4].imports = <<>>
    /\ PathsOf(out.val.files) = {"a.js", "b.js", "c.js"}

(***************************************************************************)
(* Builds of a root that is missing or partly unreadable: SpecFaults.      *)
(* One process builds; between its calls the root is removed or created    *)
(* and permissions change.                                                 *)
(***************************************************************************)

\* what may be denied: the source files, their directories, the cache file
Deniable == SrcPaths \cup SrcDirs \cup {MAP_CACHE_FILENAME}

FaultChoices ==
    { [root |-> TRUE, denied |-> D] : D \in SUBSET Deniable }
        \cup { [root |-> FALSE, denied |-> {}] }

\* the root is removed or created, or permissions under it change; nothing
\* is below a root that is missing
SetFault(f) ==
    /\ EnvMayAct
    /\ f # fault
    /\ fault' = f
    /\ cacheFile' = IF f.root THEN cacheFile ELSE CacheAbsent
    /\ prev' = IF f.root THEN prev ELSE NoPrev
    /\ bld' = [x \in Builders |-> Disturb(bld[x])]
    /\ UNCHANGED <<disk, fsRev, active, map, out, analysisCache>>

FaultInit ==
    /\ disk \in { d \in [SrcPaths -> UNION { ContentsOf(p) : p \in SrcPaths }] :
                    \A p \in SrcPaths : d[p] \in ContentsOf(p) }
    /\ fsRev \in BOOLEAN
    /\ fault \in FaultChoices
    /\ cacheFile = CacheAbsent
    /\ analysisCache = CacheAbsent
    /\ active = {"b1"}
    /\ bld = [x \in Builders |-> IdleBuilder]
    /\ prev = NoPrev
    /\ map = <<>>
    /\ out = NoOut

FaultNext ==
    \/ \E proc \in Builders, fr \in BOOLEAN : Start(proc, fr, <<>>, <<>>, <<>>)
    \/ \E proc \in Builders : Load(proc)
    \/ \E proc \in Builders : Tree(proc)
    \/ \E proc \in Builders : ReadFile(proc)
    \/ \E proc \in Builders, wr \in {"ok", "denied", "partial"} : Save(proc, wr)
    \/ \E f \in FaultChoices : SetFault(f)

SpecFaults == FaultInit /\ [][FaultNext]_vars

\* C12: a build of a root directory that does not exist never returns a
\* ProjectMap.
C12_MissingRootRejected ==
    \A b \in Builders : ~fault.root => bld[b].pc # "done"

\* the paths of the records, in order
RECURSIVE PathSeq(_)
PathSeq(records) ==
    IF Len(records) = 0 THEN <<>> ELSE <<records[1].path>> \o PathSeq(Tail(records))

\* the record of every file of the list that can be read now, in list order
RECURSIVE RecordsNow(_)
RecordsNow(fileList) ==
    IF Len(fileList) = 0 THEN <<>>
    ELSE (IF fileList[1] \in fault.denied THEN <<>>
          ELSE <<FileRecord(fileList[1], disk[fileList[1]])>>)
         \o RecordsNow(Tail(fileList))

\* C13: for an existing root no build raises, whatever is unreadable, and
\* the files of a returned map are one record, in collection order, for each
\* collected file that could be read and none for the others.
C13_ReadableRecords ==
    \A b \in Builders :
        /\ fault.root => bld[b].pc # "failed"
        /\ (bld[b].pc = "done" /\ fault.root)
             => /\ PathSeq(bld[b].result.files) = PathSeq(RecordsNow(bld[b].fileList))
                /\ ~bld[b].fromCache => bld[b].result.files = RecordsNow(bld[b].fileList)

\* a fresh build collected both files and could read only lib/b.ts
C13_Witness ==
    /\ fault.root /\ fault.denied = {"a.js"}
    /\ bld["b1"].pc = "done" /\ ~bld["b1"].fromCache
    /\ Len(bld["b1"].fileList) = 2
    /\ PathSeq(bld["b1"].result.files) = <<"lib/b.ts">>

(***************************************************************************)
(* The cache write of a build: properties of Spec.                         *)
(***************************************************************************)

\* the step of process b that runs saveProjectMap and leaves the call
SaveStep(b) == bld[b].pc = "read" /\ bld'[b].pc \notin {"read", "idle"}

\* a step of the call of process b
BuildStep(b) ==
    /\ bld'[b].pc # "idle"
    /\ bld'[b].pc # bld[b].pc \/ bld'[b].idx # bld[b].idx

\* C14: when the cache file cannot be written the call still returns, with
\* the map { tree, files, summary } it had assembled, which is the map it
\* returns when the write succeeds; the cache file then holds no new entry,
\* and no saved build is recorded.
C14_SaveBestEffort ==
    [][\A b \in Builders :
          SaveStep(b) =>
             /\ bld'[b].pc = "done"
             /\ bld'[b].result = WithSummary(bld[b].tree, bld[b].files)
             /\ \/ cacheFile' = CacheEntry(bld[b].fileHash, bld'[b].result, VERSION)
                \/ /\ cacheFile' \in {cacheFile, CacheGarbage}
                   /\ prev' \in {prev, NoPrev}]_vars

\* a fresh build of both files has returned and its write was refused: no
\* cache file exists
C14_Witness ==
    /\ bld["b1"].pc = "done" /\ ~bld["b1"].fromCache
    /\ Len(bld["b1"].result.files) = 2
    /\ cacheFile = CacheAbsent
    /\ analysisCache = CacheAbsent

\* C16: within a build only the last step writes the cache file, after the
\* tree and a record for every file of the list have been assembled and the
\* summary rendered; every earlier step leaves the cache file as it was.
C16_WriteOnceAtEnd ==
    [][\A b \in Builders :
          /\ (BuildStep(b) /\ ~SaveStep(b)) => cacheFile' = cacheFile
          /\ SaveStep(b) =>
               /\ bld[b].idx = Len(bld[b].fileList) + 1
               /\ cacheFile' \notin {cacheFile, CacheGarbage}
                    => /\ cacheFile'.map.tree = bld[b].tree
                       /\ cacheFile'.map.files = bld[b].files
                       /\ cacheFile'.map.summary
                            = toSummaryString(bld[b].tree, bld[b].files)]_vars

\* a build has written its entry: the tree, both records and the summary
C16_Witness ==
    /\ bld["b1"].pc = "done" /\ ~bld["b1"].fromCache
    /\ cacheFile.kind = "entry"
    /\ cacheFile.map = bld["b1"].result
    /\ Len(cacheFile.map.files) = 2
    /\ Len(cacheFile.map.tree.children) = 2
    /\ Len(cacheFile.map.summary) > 5

(***************************************************************************)
(* Two processes build the same root: SpecRace.  Their steps interleave    *)
(* and an editor rewrites a.js between any two of them.  Every rewrite     *)
(* changes the size of the file, so the hash sees it.                      *)
(***************************************************************************)

\* the contents the editor chooses from
RaceContents(p) ==
    IF p = "a.js"
    THEN { <<Line("require", "./lib/b")>>,
           <<Line("require", "./lib/b"), Line("from", "./a")>> }
    ELSE { <<Line("from", "../a")>> }

RaceInit ==
    /\ disk \in { d \in [SrcPaths -> UNION { RaceContents(p) : p \in SrcPaths }] :
                    \A p \in SrcPaths : d[p] \in RaceContents(p) }
    /\ fsRev = FALSE
    /\ fault = NoFault
    /\ cacheFile = CacheAbsent
    /\ analysisCache = CacheAbsent
    /\ active = Builders
    /\ bld = [x \in Builders |-> IdleBuilder]
    /\ prev = NoPrev
    /\ map = <<>>
    /\ out = NoOut

RaceNext ==
    \/ \E proc \in Builders : Start(proc, FALSE, <<>>, <<>>, <<>>)
    \/ \E proc \in Builders : Load(proc)
    \/ \E proc \in Builders : Tree(proc)
    \/ \E proc \in Builders : ReadFile(proc)
    \/ \E proc \in Builders : Save(proc, "ok")
    \/ \E path \in SrcPaths : \E text \in RaceContents(path) : Modify(path, text)

SpecRace == RaceInit /\ [][RaceNext]_vars

\* C15: a build during which the root did not change and that accepted the
\* persisted entry returns the records of the current file contents.
C15_AcceptedEntryCurrent ==
    \A b \in Builders :
        (bld[b].pc = "done" /\ bld[b].fromCache /\ ~bld[b].disturbed)
            => bld[b].result.files = RecordsNow(bld[b].fileList)

(***************************************************************************)
(* Builds with options.maxTreeDepth: SpecDepth.  One process builds the    *)
(* root again and again with the depth it chooses at each call.            *)
(***************************************************************************)

\* options.maxTreeDepth: not given, or a depth
DepthChoices == { <<>>, <<0>>, <<1>>, <<2>> }

DepthNext ==
    \/ \E proc \in Builders, fr \in BOOLEAN, md \in DepthChoices :
          Start(proc, fr, <<>>, md, <<>>)
    \/ \E proc \in Builders : Load(proc)
    \/ \E proc \in Builders : Tree(proc)
    \/ \E proc \in Builders : ReadFile(proc)
    \/ \E proc \in Builders, wr \in {"ok", "denied"} : Save(proc, wr)

SpecDepth == Init /\ [][DepthNext]_vars

\* the number of levels below the node at which a node is found
RECURSIVE TreeDepth(_)
RECURSIVE MaxChildDepth(_)
MaxChildDepth(children) ==
    IF Len(children) = 0 THEN 0
    ELSE LET first == 1 + TreeDepth(children[1])
             rest == MaxChildDepth(Tail(children))
         IN  IF first > rest THEN first ELSE rest

TreeDepth(node) == MaxChildDepth(node.children)

\* C17: the tree of the map returned by a build with maximum tree depth d
\* has no node more than d levels below the root, whatever builds came
\* before.
C17_TreeWithinDepth ==
    \A b \in Builders :
        bld[b].pc = "done" => TreeDepth(bld[b].result.tree) <= bld[b].maxDepth

\* C17, for the builds that assemble the tree themselves
C17_FreshTreeWithinDepth ==
    \A b \in Builders :
        (bld[b].pc = "done" /\ ~bld[b].fromCache)
            => TreeDepth(bld[b].result.tree) <= bld[b].maxDepth

(***************************************************************************)
(* The record of one file: SpecExtract applies the extraction of           *)
(* buildProjectMap to contents of up to MaxLines import statements.        *)
(***************************************************************************)

MaxLines == 3

\* the statements a file may hold: the same module written with forward
\* slashes, with backslashes, with both, with a trailing blank, and a package
ExtractLines ==
    { Line("require", "./lib/b"), Line("require", ".\\lib\\b"),
      Line("from", "./lib/b "), Line("dynamic", ".\\lib/b"), Line("from", "fs") }

ExtractContents == UNION { [1..k -> ExtractLines] : k \in 0..MaxLines }

ExtractInit ==
    /\ NoBuilds
    /\ map = <<>>
    /\ out = NoOut

\* the body of the loop of buildProjectMap for a file that was read
QExtract(rel, content) ==
    /\ out' = [op |-> "extract", a1 |-> rel, a2 |-> "", val |-> FileRecord(rel, content),
               before |-> content]
    /\ UNCHANGED <<disk, fsRev, fault, cacheFile, active, bld, prev, map, analysisCache>>

ExtractNext ==
    \E rel \in {"a.js", "lib\\b.ts"}, content \in ExtractContents : QExtract(rel, content)

SpecExtract == ExtractInit /\ [][ExtractNext]_vars

\* C18: the imports of a file record hold no entry twice and every entry
\* starts with '.'.
C18_ImportsDistinct ==
    out.op = "extract" =>
        /\ NoDup(out.val.imports)
        /\ \A i \in 1..Len(out.val.imports) : StartsWith(out.val.imports[i], ".")

\* C18, without the uniqueness: every entry starts with '.' and holds no
\* backslash
C18_ImportsRelative ==
    out.op = "extract" =>
        \A i \in 1..Len(out.val.imports) :
            /\ StartsWith(out.val.imports[i], ".")
            /\ IndexOf(out.val.imports[i], "\\") = 0

(***************************************************************************)
(* The base-name step of resolveImportPath and the order of map.files:     *)
(* properties of SpecResolve and SpecGraph.                                *)
(***************************************************************************)

\* the directory of a path, "" for the root
DirOf(p) == IF Dirname(p) = "." THEN "" ELSE Dirname(p)

\* the directory of the joined path
TargetDir ==
    JoinWith(SubSeq(NormalizedParts(out.a1, out.a2), 1,
                    Len(NormalizedParts(out.a1, out.a2)) - 1), "/")

\* the last resort is reached: a relative specifier whose exact, extension
\* and index candidates all fail
BasenameStep ==
    /\ out.op = "resolve"
    /\ StartsWith(out.a2, ".")
    /\ Len(NormalizedParts(out.a1, out.a2)) > 0
    /\ Present(<<Joined>> \o ExtCandidates) = {}
    /\ \A i \in 1..Len(ResolveIndexes) : Joined \o ResolveIndexes[i] \notin FileIndex

\* the files that qualify: base name without extension equal to the last
\* segment of the joined path, directory equal to the target directory or
\* ending with '/' + target directory
Qualifying ==
    { k \in FileIndex :
        /\ BasenameExt(k, Extname(k)) = Basename(Joined)
        /\ DirOf(k) = TargetDir \/ EndsWith(DirOf(k), "/" \o TargetDir) }

\* C19: in the base-name step a qualifying file in the directory of
\* fromFilePath is returned in preference to one whose directory only
\* suffix-matches the target directory, and null is returned only when no
\* file qualifies.
C19_SameDirPreferred ==
    BasenameStep =>
        /\ Qualifying # {} => out.val \in Qualifying
        /\ (\E k \in Qualifying : DirOf(k) = DirOf(out.a1))
              => DirOf(out.val) = DirOf(out.a1)

\* C20: resolveImportPath returns the same path whatever the order of the
\* files of the map.
C20_ResolveOrderFree ==
    out.op = "resolve" =>
        \A files \in Orders(MapKeys(map)) :
            resolveImportPath(out.a1, out.a2, files) = out.val

\* C20, for verifyProjectMap: the broken imports and the count are the same
\* whatever the order of the files of the map
C20_VerifyOrderFree ==
    out.op = "verify" =>
        \A files \in Orders(map) :
            /\ ToSet(verifyMap(files).brokenImports) = ToSet(out.val.brokenImports)
            /\ verifyMap(files).totalChecked = out.val.totalChecked

(***************************************************************************)
(* The Ignore Engine on its own: SpecIgnore asks shouldIgnore about paths  *)
(* under caller patterns and an external matcher.                          *)
(***************************************************************************)

\* the relative paths asked about
IgnorePaths ==
    { "src/a.js", "node_modules/x.js", "src/node_modules/x.js", "Dist", "a.log",
      "src/catalog/index.js", "blog", "src/xenv/a.js", ".git", "tmp/a.js",
      "docs/readme.md", "docs", "README.MD", "lib/b.ts" }

\* options.extraIgnore
ExtraChoices == { <<>>, <<"tmp">>, <<"*.md">>, <<"docs/*">> }

\* the paths options.ignore says to ignore
MatcherChoices == { {}, {"src/a.js"} }

IgnoreInit ==
    /\ NoBuilds
    /\ map = <<>>
    /\ out = NoOut

\* shouldIgnore(relPath, ignoreInstance, extraPatterns)
QIgnore(relPath, ignoreInstance, extraPatterns) ==
    /\ out' = [op |-> "ignore", a1 |-> relPath, a2 |-> "",
               val |-> shouldIgnore(relPath, ignoreInstance, extraPatterns),
               before |-> [matcher |-> ignoreInstance, extra |-> extraPatterns]]
    /\ UNCHANGED <<disk, fsRev, fault, cacheFile, active, bld, prev, map, analysisCache>>

IgnoreNext ==
    \E rel \in IgnorePaths, matcher \in MatcherChoices, extra \in ExtraChoices :
        QIgnore(rel, matcher, extra)

SpecIgnore == IgnoreInit /\ [][IgnoreNext]_vars

\* a pattern whose only wildcard is '*', every other character literal,
\* against a string, without regard to case
RECURSIVE GlobTest(_, _)
GlobTest(pattern, s) ==
    IF pattern = "" THEN s = ""
    ELSE IF CharAt(pattern, 1) = "*"
    THEN \E k \in 0..Len(s) : GlobTest(Tail(pattern), SubSeq(s, k + 1, Len(s)))
    ELSE /\ s # ""
         /\ LowerChar(CharAt(pattern, 1)) = LowerChar(CharAt(s, 1))
         /\ GlobTest(Tail(pattern), Tail(s))

\* some built-in or caller pattern matches a segment or the whole path
SomePatternMatches(relPath, extraPatterns) ==
    \E k \in 1..Len(DEFAULT_IGNORE \o extraPatterns) :
        \/ GlobTest((DEFAULT_IGNORE \o extraPatterns)[k], relPath)
        \/ \E j \in 1..Len(Split(relPath, "/")) :
              GlobTest((DEFAULT_IGNORE \o extraPatterns)[k], Split(relPath, "/")[j])

\* C21: shouldIgnore is true exactly when a built-in or caller pattern, '*'
\* its only wildcard, matches a segment or the whole path without regard to
\* case, or the external matcher says ignore.
C21_IgnoredIffMatch ==
    out.op = "ignore" =>
        out.val = (SomePatternMatches(out.a1, out.before.extra)
                      \/ out.a1 \in out.before.matcher)

\* C21, one direction: a path that a pattern matches or the external matcher
\* ignores is ignored, with or without caller patterns
C21_MatchIsIgnored ==
    out.op = "ignore" =>
        ((SomePatternMatches(out.a1, out.before.extra) \/ out.a1 \in out.before.matcher)
            => out.val)

(***************************************************************************)
(* The File Collector on its own: SpecCollect asks collectSourceFiles      *)
(* about every root made of files of CollectPaths, with directories that   *)
(* cannot be read.                                                         *)
(***************************************************************************)

\* the directories readdirSync may throw for
CollectDenied == { {}, {"lib"}, {"lib/sub"}, {"lib", "lib/sub"} }

\* out.before holds the root that is asked about: its files and the
\* directories that cannot be read
CollectInit ==
    /\ NoBuilds
    /\ map = <<>>
    /\ \E paths \in SUBSET CollectPaths, deniedDirs \in CollectDenied :
          out = [NoOut EXCEPT !.op = "root",
                              !.before = [paths |-> paths, denied |-> deniedDirs,
                                          extensions |-> <<>>]]

\* collectSourceFiles(projectPath, projectPath, null, [], extensions)
QCollect(rev, include) ==
    /\ out' = [op |-> "collect", a1 |-> "", a2 |-> "",
               val |-> collectSourceFiles("", Listed(out.before.paths, out.before.denied),
                                          rev, {}, <<>>, Extensions(include), <<>>),
               before |-> [out.before EXCEPT !.extensions = Extensions(include)]]
    /\ UNCHANGED <<disk, fsRev, fault, cacheFile, active, bld, prev, map, analysisCache>>

CollectNext ==
    \E rev \in BOOLEAN, include \in IncludeChoices : QCollect(rev, include)

SpecCollect == CollectInit /\ [][CollectNext]_vars

\* the directories between the root and a path
AncestorsOf(p) ==
    { JoinWith(SubSeq(Split(p, "/"), 1, k), "/") : k \in 1..(Len(Split(p, "/")) - 1) }

\* the files collect is to yield from the root asked about
Collectable ==
    { p \in out.before.paths :
        /\ Extname(p) \in ToSet(out.before.extensions)
        /\ ~Ignored(p, {}, <<>>)
        /\ \A dir \in AncestorsOf(p) :
              ~Ignored(dir, {}, <<>>) /\ dir \notin out.before.denied }

QueryPaths == {"a.js", "lib/b.js", "pkg/lib/c.py"}

\* the imports a file of a queried map may have
QueryImports == { <<>>, <<"./lib/b">>, <<"../a", "./lib/c">> }

\* the specifiers put to the resolver
QuerySpecifiers == {"./lib/b", "./lib/c", "../a", "../lib/b"}

QueryMaps ==
    UNION { { [i \in 1..Len(q) |-> [path |-> q[i], imports |-> m[i]]] :
                m \in [1..Len(q) -> QueryImports] } :
            q \in DistinctSeqs(QueryPaths, Cardinality(QueryPaths)) }

QueryInit ==
    /\ NoBuilds
    /\ map \in QueryMaps
    /\ out = NoOut

QueryNext ==
    \/ \E focus \in QueryPaths : QAffected(focus)
    \/ QVerify
    \/ \E focus \in QueryPaths, levels \in TransitiveChoices : QPinned(focus, levels)
    \/ QMermaid
    \/ \E src \in QueryPaths, imp \in QuerySpecifiers : QResolve(src, imp)

SpecQuery == QueryInit /\ [][QueryNext]_vars

\* is sub what is left of seq when some of its elements are taken out
RECURSIVE IsSubsequence(_, _)
IsSubsequence(sub, seq) ==
    IF Len(sub) = 0 THEN TRUE
    ELSE IF Len(seq) = 0 THEN FALSE
    ELSE IF sub[1] = seq[1] THEN IsSubsequence(Tail(sub), Tail(seq))
    ELSE IsSubsequence(sub, Tail(seq))

\* C23: getAffectedFiles, getPinnedContext, verifyProjectMap and
\* generateMermaidGraph leave map.files as it was: the same records in the
\* same order; the files of a pinned context are a selection of them.
C23_QueriesLeaveMap ==
    [][out'.op \in {"affected", "verify", "pinned", "mermaid"} =>
          /\ map' = map
          /\ out'.op = "pinned" => IsSubsequence(out'.val.files, map')]_vars

\* the graph was rendered of a map whose second file has more imports than
\* its first, so the rendering sorted them the other way round; the map is
\* as it was
C23_Witness ==
    /\ out.op = "mermaid"
    /\ Len(map) = 2
    /\ Len(map[1].imports) < Len(map[2].imports)
    /\ out.before = map
    /\ Len(out.val) > 0

(***************************************************************************)
(* The cache of analysis results: SpecAnalysis saves and loads it, the     *)
(* writes succeeding or failing.  out.before carries the arguments of the  *)
(* last saveCache that returned true.                                      *)
(***************************************************************************)

HashChoices == {"h1", "h2"}

ReportChoices == {"r1", "r2"}

ModelChoices == {"gemini", Undefined}

\* Date.now()
ClockChoices == {"t1", "t2"}

WriteOutcomes == {"ok", "denied", "partial"}

NoSave == [saved |-> FALSE, hash |-> Undefined, report |-> Undefined, model |-> Undefined]

LastSaved == IF out.op \in {"saveCache", "loadCache"} THEN out.before ELSE NoSave

AnalysisInit ==
    /\ NoBuilds
    /\ map = <<>>
    /\ out = NoOut

\* saveCache(absolutePath, projectHash, report, model)
QSaveCache(projectHash, report, model, now, outcome) ==
    /\ analysisCache' = saveCache(analysisCache, projectHash, report, model, now, outcome).cache
    /\ out' = [op |-> "saveCache", a1 |-> projectHash, a2 |-> report,
               val |-> saveCache(analysisCache, projectHash, report, model, now, outcome).saved,
               before |-> IF saveCache(analysisCache, projectHash, report, model, now,
                                       outcome).saved
                          THEN [saved |-> TRUE, hash |-> projectHash, report |-> report,
                                model |-> model]
                          ELSE LastSaved]
    /\ UNCHANGED <<disk, fsRev, fault, cacheFile, active, bld, prev, map>>

\* loadCache(absolutePath)
QLoadCache ==
    /\ out' = [op |-> "loadCache", a1 |-> "", a2 |-> "",
               val |-> loadCache(analysisCache), before |-> LastSaved]
    /\ UNCHANGED <<disk, fsRev, fault, cacheFile, analysisCache, active, bld, prev, map>>

AnalysisNext ==
    \/ \E projectHash \in HashChoices, report \in ReportChoices, model \in ModelChoices,
          now \in ClockChoices, outcome \in WriteOutcomes :
          QSaveCache(projectHash, report, model, now, outcome)
    \/ QLoadCache

SpecAnalysis == AnalysisInit /\ [][AnalysisNext]_vars

\* C24: loadCache returns null when no saveCache has returned true, and
\* otherwise the hash, report and model of the last saveCache that returned
\* true, with the version of the tool; a saveCache that returned false
\* changes nothing of this.
C24_LastSavedLoaded ==
    out.op = "loadCache" =>
        IF out.before.saved
        THEN /\ out.val.found
             /\ out.val.data.hash = out.before.hash
             /\ out.val.data.report = out.before.report
             /\ out.val.data.model = out.before.model
             /\ out.val.data.version = VERSION
        ELSE ~out.val.found

\* C24, what is left of it: an entry that loadCache returns is the hash,
\* report and model of the last saveCache that returned true, with the
\* version of the tool.
C24_LoadedAfterWholeWrites ==
    (out.op = "loadCache" /\ out.val.found) =>
        /\ out.before.saved
        /\ out.val.data.hash = out.before.hash
        /\ out.val.data.report = out.before.report
        /\ out.val.data.model = out.before.model
        /\ out.val.data.version = VERSION

(***************************************************************************)
(* forceRebuild: a property of Spec.                                       *)
(***************************************************************************)

\* the call of process b begins
StartStep(b) == bld[b].pc \in {"idle", "done"} /\ bld'[b].pc \notin {"idle", "done"}

\* C25: a call with forceRebuild never reads the cache entry: it goes from
\* the hash to the tree, reads every file of its list and returns a map that
\* is not the cached one; when its write leaves a new entry, the entry holds
\* the hash of the list of that call and the map the call returns.  A call
\* without forceRebuild reads the entry before it has extracted anything, and
\* returns the map of the entry only when its hash is the hash of its list.
C25_ForceSkipsCache ==
    [][\A b \in Builders :
          /\ StartStep(b) => (bld'[b].pc = "tree" <=> bld'[b].force)
          /\ StartStep(b) => (bld'[b].pc = "load" <=> ~bld'[b].force)
          /\ bld'[b].force => (bld'[b].pc # "load" /\ ~bld'[b].fromCache)
          /\ (SaveStep(b) /\ bld[b].force) =>
               /\ bld[b].idx = Len(bld[b].fileList) + 1
               /\ Len(bld[b].files) = bld[b].extracted
               /\ cacheFile' \notin {cacheFile, CacheGarbage} =>
                    /\ cacheFile'.hash = bld[b].fileHash
                    /\ bld'[b].pc = "done"
                    /\ cacheFile'.map = [tree |-> bld'[b].result.tree,
                                         files |-> bld'[b].result.files,
                                         summary |-> bld'[b].result.summary]
          /\ bld'[b].pc = "load" => (bld'[b].extracted = 0 /\ bld'[b].files = <<>>)
          /\ (bld[b].pc = "load" /\ bld'[b].pc = "done") =>
               /\ bld'[b].fromCache
               /\ cacheFile.kind = "entry"
               /\ cacheFile.hash = bld[b].fileHash
               /\ bld'[b].result.files = cacheFile.map.files]_vars

\* a call with forceRebuild began while the cache held the entry of its own
\* hash, extracted both files and left an entry with its hash and its map
C25_Witness ==
    \E b \in Builders :
        /\ bld[b].pc = "done"
        /\ bld[b].force
        /\ ~bld[b].fromCache
        /\ bld[b].extracted = 2
        /\ bld[b].base.hash = bld[b].fileHash
        /\ cacheFile.kind = "entry"
        /\ cacheFile.hash = bld[b].fileHash
        /\ cacheFile.map.files = bld[b].result.files

(***************************************************************************)
(* extractSignatures.  A match of the signature pattern is the sequence of *)
(* its capture groups, one of which holds the declared name; SpecSignatures*)
(* extracts the signatures of every file of up to MaxDecls declarations,   *)
(* one of them possibly declared twice.                                    *)
(***************************************************************************)

\* out.slice(0, 30)
MaxSignatures == 30

\* the declarations of a file, at most
MaxDecls == 32

\* the capture groups of the pattern for JavaScript
SignatureGroups == 3

\* the i-th name declared
DeclName(i) == "f" \o ToString(i)

\* a match whose group g captured the name
MatchOf(name, g) == [k \in 1..SignatureGroups |-> IF k = g THEN name ELSE Undefined]

\* m.slice(1).find(Boolean)
RECURSIVE FindBoolean(_)
FindBoolean(groups) ==
    IF Len(groups) = 0 THEN Undefined
    ELSE IF groups[1] \notin {Undefined, ""} THEN groups[1]
    ELSE FindBoolean(Tail(groups))

\* the loop over re.exec: if (name && !out.includes(name)) out.push(name)
RECURSIVE PushNames(_, _)
PushNames(matches, names) ==
    IF Len(matches) = 0 THEN names
    ELSE PushNames(Tail(matches),
                   IF /\ FindBoolean(matches[1]) # Undefined
                      /\ ~Has(names, FindBoolean(matches[1]))
                   THEN Append(names, FindBoolean(matches[1]))
                   ELSE names)

\* faulty variant of extractSignatures: the matches are cut to 30, not the names
extractSignaturesCutMatches(matches) == PushNames(Slice(matches, MaxSignatures), <<>>)

\* extractSignatures(filePath, content), given the matches of the pattern in
\* content
extractSignatures(matches) == Slice(PushNames(matches, <<>>), MaxSignatures)

\* the matches of a file that declares the names 1..n in this order, and
\* declares the name twice again after the declaration at (twice = 0: no name
\* is declared twice)
DeclMatches(n, twice, at, g) ==
    [i \in 1..(IF twice = 0 THEN n ELSE n + 1) |->
        MatchOf(DeclName(IF twice = 0 \/ i <= at THEN i
                         ELSE IF i = at + 1 THEN twice ELSE i - 1), g)]

SignaturesInit ==
    /\ NoBuilds
    /\ map = <<>>
    /\ \E n \in 0..MaxDecls, g \in 1..SignatureGroups :
         \E twice \in 0..n :
           \E at \in twice..n :
             out = [NoOut EXCEPT !.op = "content",
                                 !.before = DeclMatches(n, twice, at, g)]

\* extractSignatures(full, content)
QSignatures ==
    /\ out.op = "content"
    /\ out' = [out EXCEPT !.op = "signatures", !.val = extractSignatures(out.before)]
    /\ UNCHANGED <<disk, fsRev, fault, cacheFile, analysisCache, active, bld, prev, map>>

SignaturesNext == QSignatures

SpecSignatures == SignaturesInit /\ [][SignaturesNext]_vars

\* the names that the matches capture, in the order of the matches
NamesOf(matches) == [i \in 1..Len(matches) |-> FindBoolean(matches[i])]

\* the names of a sequence that are not in seen, each where it comes first
RECURSIVE FirstAppearances(_, _)
FirstAppearances(names, seen) ==
    IF Len(names) = 0 THEN <<>>
    ELSE IF names[1] \in seen THEN FirstAppearances(Tail(names), seen)
    ELSE <<names[1]>> \o FirstAppearances(Tail(names), seen \cup {names[1]})

\* is sig the first MaxSignatures names of distinct, or all of them
IsCutOf(sig, distinct) ==
    /\ Len(sig) = IF Len(distinct) < MaxSignatures THEN Len(distinct) ELSE MaxSignatures
    /\ \A k \in 1..Len(sig) : sig[k] = distinct[k]

\* C26: the signatures are the distinct names matched, in the order of their
\* first matches, cut to the first 30: at most 30 names, none twice, none
\* that is first matched after 30 other names.
C26_FirstThirtyDistinct ==
    out.op = "signatures" =>
        /\ Len(out.val) <= MaxSignatures
        /\ Cardinality(ToSet(out.val)) = Len(out.val)
        /\ IsCutOf(out.val, FirstAppearances(NamesOf(out.before), {}))

\* 32 names were declared, the first of them twice: 33 matches, 30
\* signatures, the last of them the 30th name
C26_Witness ==
    /\ out.op = "signatures"
    /\ Len(out.before) = MaxDecls + 1
    /\ FindBoolean(out.before[2]) = DeclName(1)
    /\ Len(out.val) = MaxSignatures
    /\ out.val[MaxSignatures] = DeclName(MaxSignatures)

(***************************************************************************)
(* What the resolver returns: a property of SpecQuery.                     *)
(***************************************************************************)

\* the paths of the records of the map
MapPaths == { map[i].path : i \in 1..Len(map) }

\* C27: a path that resolveImportPath returns is the path of a record of
\* the map; so are the dependencies and the dependents of getAffectedFiles,
\* and every broken import of verifyProjectMap has the reason of a target
\* that was not found, none the reason of a path absent from the map.
C27_ResolvedInMap ==
    /\ out.op = "resolve" => (out.val = Null \/ out.val \in MapPaths)
    /\ out.op = "affected" =>
         /\ ToSet(out.val.dependencies) \subseteq MapPaths
         /\ ToSet(out.val.dependents) \subseteq MapPaths
    /\ out.op = "verify" =>
         \A i \in 1..Len(out.val.brokenImports) :
             out.val.brokenImports[i].reason = ReasonNotFound

\* './lib/c' of a.js was resolved by the base name, to pkg/lib/c.py
C27_Witness ==
    /\ out.op = "resolve"
    /\ out.a1 = "a.js"
    /\ out.a2 = "./lib/c"
    /\ out.val = "pkg/lib/c.py"
    /\ out.val \in MapPaths

(***************************************************************************)
(* The builder with a file size limit: SpecSize is Spec with the option    *)
(* maxFileSize and a root that does not change.                            *)
(***************************************************************************)

\* options.maxFileSize: not given, or a size
SizeChoices == { <<>>, <<1>> }

SizeNext ==
    \/ \E proc \in Builders, fr \in BOOLEAN, ms \in SizeChoices :
          Start(proc, fr, <<>>, <<>>, ms)
    \/ \E proc \in Builders : Load(proc)
    \/ \E proc \in Builders : Tree(proc)
    \/ \E proc \in Builders : ReadFile(proc)
    \/ \E proc \in Builders, wr \in {"ok", "denied"} : Save(proc, wr)

SpecSize == Init /\ [][SizeNext]_vars

\* the files of a build of the root as it is: the loop of buildProjectMap
\* over a file list with a size limit
RECURSIVE RebuiltFiles(_, _)
RebuiltFiles(fileList, maxFileSize) ==
    IF Len(fileList) = 0 THEN <<>>
    ELSE (IF ReadFileSync(fileList[1], FsDisk(disk, fault), cacheFile) = NoFile THEN <<>>
          ELSE <<FileRecord(fileList[1],
                            Truncated(ReadFileSync(fileList[1], FsDisk(disk, fault),
                                                   cacheFile), maxFileSize))>>)
         \o RebuiltFiles(Tail(fileList), maxFileSize)

\* C28: the files of a map served from the cache are the files that a build
\* with forceRebuild and the same options returns for the unchanged root,
\* whatever the options of the build that wrote the entry.
C28_CacheHitAsRebuilt ==
    \A b \in Builders :
        (bld[b].pc = "done" /\ bld[b].fromCache)
            => bld[b].result.files = RebuiltFiles(bld[b].fileList, bld[b].maxFileSize)

\* C28, for the builds that extract the files themselves
C28_FreshAsRebuilt ==
    \A b \in Builders :
        (bld[b].pc = "done" /\ ~bld[b].fromCache)
            => bld[b].result.files = RebuiltFiles(bld[b].fileList, bld[b].maxFileSize)

(***************************************************************************)
(* Imports that climb above the root: a property of SpecQuery.             *)
(***************************************************************************)

\* is the file in the root directory
AtRoot(p) == Dirname(p) = "."

\* the specifier with './' where importPath has '../'
SameFromHere(importPath) == "./" \o SubSeq(importPath, 4, Len(importPath))

\* is the import of the file among the broken imports
Reported(brokenImports, from, imp) ==
    \E i \in 1..Len(brokenImports) :
        brokenImports[i].from = from /\ brokenImports[i].import = imp

\* C29: from a file of the root, '../x' resolves as './x' does: the '..'
\* that would leave the root is dropped.  An import '../x' of such a file
\* whose './x' resolves is not among the broken imports of verifyProjectMap.
C29_AboveRootClamped ==
    /\ (out.op = "resolve" /\ AtRoot(out.a1) /\ StartsWith(out.a2, "../")) =>
          out.val = resolveImportPath(out.a1, SameFromHere(out.a2), MapKeys(map))
    /\ out.op = "verify" =>
          \A i \in 1..Len(map) : \A j \in 1..Len(map[i].imports) :
              ( /\ AtRoot(map[i].path)
                /\ StartsWith(map[i].imports[j], "../")
                /\ resolveImportPath(map[i].path, SameFromHere(map[i].imports[j]),
                                     MapKeys(map)) # Null )
              => ~Reported(out.val.brokenImports, map[i].path, map[i].imports[j])

\* '../lib/b' of a.js, a file of the root, was resolved to lib/b.js
C29_Witness ==
    /\ out.op = "resolve"
    /\ out.a1 = "a.js"
    /\ out.a2 = "../lib/b"
    /\ out.val = "lib/b.js"

(***************************************************************************)
(* The verify command of the command line (cli.js).  SpecVerifyCli runs it *)
(* on every map of QueryMaps, as the map that verifyProjectMap builds of   *)
(* the project.                                                            *)
(***************************************************************************)

\* what the command is when verifyProjectMap was not reached or threw
NotVerified == [ok |-> FALSE, brokenImports |-> <<>>, totalChecked |-> 0]

\* the action of program.command('verify').  exists: fs.existsSync of the
\* project path; throws: verifyProjectMap rejects; json: the option --json.
\* status is the exit status of the process (0 when the action returns),
\* verified says whether verifyProjectMap returned, result what it returned.
verifyCommand(files, json, exists, throws) ==
    IF ~exists THEN [status |-> 1, verified |-> FALSE, result |-> NotVerified]
    ELSE IF throws THEN [status |-> 1, verified |-> FALSE, result |-> NotVerified]
    ELSE IF json THEN [status |-> 0, verified |-> TRUE, result |-> verifyMap(files)]
    ELSE IF verifyMap(files).ok
    THEN [status |-> 0, verified |-> TRUE, result |-> verifyMap(files)]
    ELSE [status |-> 1, verified |-> TRUE, result |-> verifyMap(files)]

\* legacylens verify [project] [--json]
QVerifyCommand(json, exists, throws) ==
    /\ out' = [op |-> "verifyCommand", a1 |-> IF json THEN "--json" ELSE "", a2 |-> "",
               val |-> verifyCommand(map, json, exists, throws), before |-> <<>>]
    /\ UNCHANGED <<disk, fsRev, fault, cacheFile, analysisCache, active, bld, prev, map>>

VerifyCliNext ==
    \E json \in BOOLEAN, exists \in BOOLEAN, throws \in BOOLEAN :
        QVerifyCommand(json, exists, throws)

SpecVerifyCli == QueryInit /\ [][VerifyCliNext]_vars

\* C30: the verify command ends with a status other than 0 whenever
\* verifyProjectMap has reported a broken import, and with status 0 only
\* when it has returned ok, with --json and without.
C30_StatusTellsBroken ==
    out.op = "verifyCommand" =>
        /\ (out.val.verified /\ Len(out.val.result.brokenImports) > 0) => out.val.status # 0
        /\ out.val.status = 0 => (out.val.verified /\ out.val.result.ok)

\* C30, without --json
C30_PlainStatusTellsBroken ==
    (out.op = "verifyCommand" /\ out.a1 = "") =>
        /\ (out.val.verified /\ Len(out.val.result.brokenImports) > 0) => out.val.status # 0
        /\ out.val.status = 0 => (out.val.verified /\ out.val.result.ok)

====
